---------------------------- MODULE Spec2Model ----------------------------
(***************************************************************************)
(* A model of the aggregation and reporting code of the goblin personal    *)
(* finance application: the dashboard page (loadDashboardData,             *)
(* loadAllTransactions, dailyData, donutData, monthlySubscriptionCost,     *)
(* currentMonthSpending, currentMonthIncome, upcomingCharges),             *)
(* the budgets page (loadData, utilization, totalExpectedIncome) and the   *)
(* category tree builder (buildCategoryTree).                              *)
(*                                                                         *)
(* Dates.  A JavaScript Date at local midnight is a triple <<y, m, d>>.    *)
(* The string format(date, "yyyy-MM-dd") is modelled by the number         *)
(* yyyymmdd: both are fixed-width digit strings, so JavaScript's string    *)
(* comparison of two formatted dates is the comparison of these numbers.   *)
(*                                                                         *)
(* Numbers.  Amounts are integers in minor units.  A JavaScript number     *)
(* that results from a division by 100 is an IEEE-754 double; it is        *)
(* modelled exactly by a record [n, d] that stands for the real number     *)
(*     n / 100  +  d / (100 * 2^59)                                        *)
(* where n is the exact count of hundredths and d the accumulated rounding *)
(* error.  Round below is round-to-nearest-even on the 53-bit grid of the  *)
(* value's binade, so Div100 and FAdd return the very double the engine    *)
(* computes, for values from 0.01 up to 16.                                *)
(***************************************************************************)
EXTENDS Integers, Sequences, FiniteSets, TLC

(***************************************************************************)
(* Generic helpers                                                         *)
(***************************************************************************)
Min(a, b) == IF a <= b THEN a ELSE b

Abs(x) == IF x < 0 THEN -x ELSE x

RECURSIVE Pow2(_)
Pow2(k) == IF k <= 0 THEN 1 ELSE 2 * Pow2(k - 1)

\* 2^k modulo m, by repeated doubling (2^k itself does not fit an integer)
RECURSIVE Pow2Mod(_, _)
Pow2Mod(k, m) == IF k <= 0 THEN 1 % m ELSE (2 * Pow2Mod(k - 1, m)) % m

\* F applied to the value of v: the bound variable holds v evaluated once
Let(v, F(_)) == CHOOSE y \in { F(x) : x \in {v} } : TRUE

\* Array.prototype.slice(0, k)
Take(s, k) == SubSeq(s, 1, Min(k, Len(s)))

RECURSIVE SeqSum(_)
SeqSum(s) == IF s = <<>> THEN 0 ELSE s[1] + SeqSum(Tail(s))

\* all sequences over S of length at most k
SeqsUpTo(S, k) == UNION { [1..n -> S] : n \in 0..k }

(***************************************************************************)
(* Calendar: Date objects as the date-fns functions of the pages use them  *)
(***************************************************************************)
IsLeap(y) == (y % 4 = 0 /\ y % 100 # 0) \/ y % 400 = 0

DaysInMonth(y, m) ==
    IF m = 2 THEN (IF IsLeap(y) THEN 29 ELSE 28)
    ELSE IF m \in {4, 6, 9, 11} THEN 30 ELSE 31

NextDay(dt) ==
    IF dt[3] < DaysInMonth(dt[1], dt[2]) THEN <<dt[1], dt[2], dt[3] + 1>>
    ELSE IF dt[2] < 12 THEN <<dt[1], dt[2] + 1, 1>>
    ELSE <<dt[1] + 1, 1, 1>>

PrevDay(dt) ==
    IF dt[3] > 1 THEN <<dt[1], dt[2], dt[3] - 1>>
    ELSE IF dt[2] > 1 THEN <<dt[1], dt[2] - 1, DaysInMonth(dt[1], dt[2] - 1)>>
    ELSE <<dt[1] - 1, 12, 31>>

\* date-fns addDays: setDate(getDate() + amount), the Date normalising the overflow
RECURSIVE AddDays(_, _)
AddDays(dt, k) ==
    IF k = 0 THEN dt
    ELSE IF k > 0 THEN AddDays(NextDay(dt), k - 1)
    ELSE AddDays(PrevDay(dt), k + 1)

\* date-fns subDays(date, k) = addDays(date, -k)
SubDays(dt, k) == AddDays(dt, -k)

\* date-fns addMonths: the same day of the target month, or that month's last
\* day when the month is shorter
AddMonths(dt, k) ==
    LET idx == dt[1] * 12 + (dt[2] - 1) + k
        y   == idx \div 12
        m   == (idx % 12) + 1
        dim == DaysInMonth(y, m)
    IN  IF dt[3] >= dim THEN <<y, m, dim>> ELSE <<y, m, dt[3]>>

\* date-fns subMonths(date, k) = addMonths(date, -k)
SubMonths(dt, k) == AddMonths(dt, -k)

\* date-fns subYears(date, k) = addYears(date, -k) = addMonths(date, -12 k)
SubYears(dt, k) == AddMonths(dt, -(12 * k))

StartOfMonth(dt) == <<dt[1], dt[2], 1>>

StartOfYear(dt) == <<dt[1], 1, 1>>

\* new Date(0)
Epoch == <<1970, 1, 1>>

\* format(date, "yyyy-MM-dd"), as the number yyyymmdd
Format(dt) == dt[1] * 10000 + dt[2] * 100 + dt[3]

\* format(date, "yyyy-MM"), as the number yyyymm; str.startsWith(yyyy-MM) on a
\* formatted date compares this prefix
FormatMonth(dt) == dt[1] * 100 + dt[2]

\* date1 <= date2 on Date objects (comparison of the time values)
DateLeq(a, b) == Format(a) <= Format(b)

(***************************************************************************)
(* IEEE-754 doubles [n, d] = n/100 + d/(100 * 2^59)                        *)
(***************************************************************************)
Zero == [n |-> 0, d |-> 0]

\* 100 * 2^e <= value, for a binade exponent e (the error d is far below one
\* hundredth, so it decides only when the hundredths are on the boundary)
AtLeastPow2(n, d, e) ==
    LET lhs == IF e >= 0 THEN n ELSE n * Pow2(-e)
        rhs == IF e >= 0 THEN 100 * Pow2(e) ELSE 100
    IN  lhs > rhs \/ (lhs = rhs /\ d >= 0)

\* the exponent e with 2^e <= value < 2^(e+1)
RECURSIVE BinadeFrom(_, _, _)
BinadeFrom(n, d, e) ==
    IF AtLeastPow2(n, d, e + 1) THEN BinadeFrom(n, d, e + 1) ELSE e

Binade(n, d) == BinadeFrom(n, d, -7)

\* the double nearest to n/100 + d/(100 * 2^59), ties to even
Round(n, d) ==
    IF n = 0 /\ d = 0 THEN Zero
    ELSE
      LET e    == Binade(n, d)
          G    == 100 * Pow2(e + 7)       \* one unit in the last place
          rem  == (Pow2(e + 7) * (((n % 100) * Pow2Mod(52 - e, 100)) % 100) + d) % G
          rem2 == (Pow2(e + 8) * (((n % 100) * Pow2Mod(51 - e, 100)) % 100) + d) % (2 * G)
          odd  == rem2 - rem = G
      IN  IF 2 * rem < G THEN [n |-> n, d |-> d - rem]
          ELSE IF 2 * rem > G THEN [n |-> n, d |-> d + G - rem]
          ELSE IF odd THEN [n |-> n, d |-> d + G - rem]
          ELSE [n |-> n, d |-> d - rem]

\* x / 100 for an integer x >= 0
Div100(x) == Round(x, 0)

\* a + b on doubles
FAdd(a, b) == Round(a.n + b.n, a.d + b.d)

\* a < b on doubles
FLess(a, b) == a.n < b.n \/ (a.n = b.n /\ a.d < b.d)

\* list.reduce((acc, x) => acc + x, acc0) on doubles
RECURSIVE FSumFrom(_, _)
FSumFrom(acc, xs) ==
    IF xs = <<>> THEN acc
    ELSE Let(FAdd(acc, xs[1]), LAMBDA v : FSumFrom(v, Tail(xs)))


(***************************************************************************)
(* Exact fractions <<p, q>> in lowest terms with q > 0.  The results of    *)
(* amount * 4.33, amount * 2.17, amount / 12 and spent / allocated * 100   *)
(* are modelled by the exact fraction; the rounding of the double is left  *)
(* out for them.                                                           *)
(***************************************************************************)
RECURSIVE GCD(_, _)
GCD(a, b) == IF b = 0 THEN a ELSE GCD(b, a % b)

\* p / q for q > 0
Rat(p, q) ==
    LET g == GCD(Abs(p), q) IN <<p \div g, q \div g>>

RatAdd(a, b) == Rat(a[1] * b[2] + b[1] * a[2], a[2] * b[2])

RatLeq(a, b) == a[1] * b[2] <= b[1] * a[2]

\* Math.min(a, b)
RatMin(a, b) == IF RatLeq(a, b) THEN a ELSE b

(***************************************************************************)
(* State                                                                   *)
(***************************************************************************)
VARIABLES
    today,            \* startOfToday() of the current render (DashboardPage)
    accounts,         \* DashboardPage state: the accounts of the last load
    transactions,     \* DashboardPage state: the merged bounded-window fetch
    allTransactions,  \* DashboardPage state: the merged full-history fetch
    subscriptions,    \* DashboardPage state: the subscriptions of all accounts
    totalBalance,     \* DashboardPage state: the summed latest balances
    loading,          \* DashboardPage state: the loading flag
    donutPeriod,      \* DashboardPage state: the period selector
    dailyData,        \* the memoised dailyData (<<>> before the first render)
    donutData,        \* the memoised donutData (<<>> before the first render)
    monthlySubscriptionCost,  \* the memoised monthly cost (<<>> before it)
    currentMonthSpending,     \* the memoised spending of this month, <<v>>
    currentMonthIncome,       \* the memoised income of this month, <<v>>
    upcomingCharges,          \* the memoised upcoming charges, <<list>>
    store,            \* the local store behind the fetch functions
    storeChanges,     \* how many times the store has changed so far
    loads,            \* the calls of loadDashboardData, in the order they began
    requests,         \* the calls of loadAllTransactions, in the order they began
    categories,       \* the category list handed to buildCategoryTree
    tree,             \* the result of buildCategoryTree (<<>> before the call)
    currentMonth,     \* BudgetsPage state: the selected month
    budgets,          \* BudgetsPage state: the budgets with spending
    incomeStreams,    \* BudgetsPage state: the income streams
    budgetsLoading,   \* BudgetsPage state: the loading flag
    budgetLoads,      \* the calls of loadData, in the order they began
    utilization,      \* the rendered percent and isOverBudget of every budget
    totalExpectedIncome,      \* the memoised expected income (<<>> before it)
    isOpen,           \* ImportDialog prop: the dialog is open
    step,             \* ImportDialog state: "select", "importing" or "result"
    importAccounts,   \* ImportDialog state: accounts
    importAccountId,  \* ImportDialog state: selectedAccountId, nullable
    selectedFile,     \* ImportDialog state: the chosen file's name, nullable
    result,           \* ImportDialog state: the ImportResult, nullable
    error,            \* ImportDialog state: the error message, nullable
    accountFetches,   \* the dialog's calls of getAccounts that are in flight
    imports,          \* the calls of handleImport, in the order they began
    pageAccounts,     \* TransactionsPage state: accounts
    selectedAccountId,    \* TransactionsPage state: the selected account, nullable
    pageTransactions, \* TransactionsPage state: transactions
    pageLoading,      \* TransactionsPage state: loading
    accountLoads,     \* the calls of loadAccounts that are in flight
    fetches           \* the calls of loadTransactions, in the order they began

\* the state of the dashboard page
pageVars ==
    <<today, accounts, transactions, allTransactions, subscriptions,
      totalBalance, loading, donutPeriod>>

\* the memoised values of the dashboard page
memoVars ==
    <<dailyData, donutData, monthlySubscriptionCost, currentMonthSpending,
      currentMonthIncome, upcomingCharges>>

\* the store and the calls in flight against it
loaderVars == <<store, storeChanges, loads, requests>>

treeVars == <<categories, tree>>

budgetVars ==
    <<currentMonth, budgets, incomeStreams, budgetsLoading, budgetLoads,
      utilization, totalExpectedIncome>>

\* the state of the import dialog and its calls in flight
dialogVars ==
    <<isOpen, step, importAccounts, importAccountId, selectedFile, result, error,
      accountFetches, imports>>

\* the state of the transactions page and its calls in flight
transactionsVars ==
    <<pageAccounts, selectedAccountId, pageTransactions, pageLoading, accountLoads,
      fetches>>

vars ==
    <<pageVars, memoVars, loaderVars, treeVars, budgetVars, dialogVars,
      transactionsVars>>

\* a value that may be null: <<>> is null, <<v>> is v
Null == <<>>

Some(v) == <<v>>

\* a TransactionWithCategory as the store returns it; date is the yyyy-MM-dd
\* string, category_name and balance_snapshot may be null
Tx(acc, date, amount, payee, cat, bal) ==
    [account_id |-> acc, date |-> date, amount |-> amount, payee |-> payee,
     category_name |-> cat, balance_snapshot |-> bal]

\* DashboardPage: const startDate = subMonths(today, 3)
StartDate == SubMonths(today, 3)

\* DashboardPage: const endDate = addDays(today, 3)
EndDate == AddDays(today, 3)

(***************************************************************************)
(* dailyData: the daily cash-flow buckets                                  *)
(***************************************************************************)
\* "Initialize all days in range": while (current <= endDate) { days[dStr] = ... }
\* days is a plain object with non-numeric string keys: a list in insertion order
\* InitDays with the loop test current < endDate: the last day is left out
RECURSIVE InitDaysExclusive(_, _)
InitDaysExclusive(current, endDate) ==
    IF Format(current) < Format(endDate)
    THEN << [date |-> Format(current), income |-> Zero, expenses |-> Zero,
             topExpenses |-> <<>>, topIncome |-> <<>>] >>
         \o InitDaysExclusive(AddDays(current, 1), endDate)
    ELSE <<>>

RECURSIVE InitDays(_, _)
InitDays(current, endDate) ==
    IF DateLeq(current, endDate)
    THEN << [date |-> Format(current), income |-> Zero, expenses |-> Zero,
             topExpenses |-> <<>>, topIncome |-> <<>>] >>
         \o InitDays(AddDays(current, 1), endDate)
    ELSE <<>>

\* the position of days[dStr], 0 when days[dStr] is undefined
DayIndex(days, dStr) ==
    IF \E i \in 1..Len(days) : days[i].date = dStr
    THEN CHOOSE i \in 1..Len(days) : days[i].date = dStr
    ELSE 0

\* the body of transactions.forEach(tx => ...) in dailyData
FillOne(days, tx) ==
    LET i == DayIndex(days, tx.date)
    IN  IF i = 0 THEN days
        ELSE IF tx.amount > 0
        THEN [days EXCEPT
                ![i].income = FAdd(@, Div100(tx.amount)),
                ![i].topIncome = Append(@, [payee |-> tx.payee,
                                            amount |-> Div100(tx.amount)])]
        ELSE [days EXCEPT
                ![i].expenses = FAdd(@, Div100(Abs(tx.amount))),
                ![i].topExpenses = Append(@, [payee |-> tx.payee,
                                              amount |-> Div100(Abs(tx.amount))])]

RECURSIVE FillDays(_, _)
FillDays(days, txs) ==
    IF txs = <<>> THEN days
    ELSE FillDays(FillOne(days, txs[1]), Tail(txs))

\* Array.prototype.sort is stable, so its result is fixed by the comparator:
\* element i lands behind the elements that sort strictly before it and the
\* equal ones that precede it.  before[i][j] says that s[j] sorts strictly
\* before s[i]; StableSort returns the sorted list.
StableSort(s, before) ==
    LET n == Len(s)
        Rank(i) == Cardinality({ j \in 1..n : before[i][j] \/
                                    (j < i /\ ~before[j][i]) }) + 1
    IN  Let([i \in 1..n |-> Rank(i)],
            LAMBDA rank : [p \in 1..n |-> s[CHOOSE i \in 1..n : rank[i] = p]])

\* list.sort((a, b) => b.amount - a.amount): descending, stable
SortByAmountDesc(s) ==
    Let([i \in 1..Len(s) |-> [j \in 1..Len(s) |-> FLess(s[i].amount, s[j].amount)]],
        LAMBDA before : StableSort(s, before))

\* TopContributors with the cut taken before the ranking
TopContributorsCutFirst(day) ==
    [day EXCEPT !.topExpenses = SortByAmountDesc(Take(@, 5)),
                !.topIncome = SortByAmountDesc(Take(@, 5))]

\* "Sort and limit top transactions per day": sort(...).slice(0, 5)
TopContributors(day) ==
    [day EXCEPT !.topExpenses = Take(SortByAmountDesc(@), 5),
                !.topIncome = Take(SortByAmountDesc(@), 5)]

\* list.sort((a, b) => a.date.localeCompare(b.date)): ascending, stable
SortByDate(s) ==
    LET n == Len(s)
        Rank(i) == Cardinality({ j \in 1..n : s[j].date < s[i].date \/
                                    (j < i /\ s[j].date = s[i].date) }) + 1
    IN  Let([i \in 1..n |-> Rank(i)],
            LAMBDA rank : [p \in 1..n |-> s[CHOOSE i \in 1..n : rank[i] = p]])

\* const dailyData = useMemo(() => {...}, [transactions, startDate, endDate])
DailyData(txs, startDate, endDate) ==
    Let(InitDays(startDate, endDate), LAMBDA days :
    Let(FillDays(days, txs), LAMBDA filled :
    Let([i \in 1..Len(filled) |-> TopContributors(filled[i])], LAMBDA topped :
        SortByDate(topped))))

(***************************************************************************)
(* donutData: the category breakdown of the selected period                *)
(***************************************************************************)
Periods == { "week", "month", "year", "thisMonth", "thisYear", "all" }

\* PeriodStart with "month" taken as thirty days
PeriodStartThirtyDays(period, now) ==
    CASE period = "week"      -> SubDays(now, 7)
      [] period = "month"     -> SubDays(now, 30)
      [] period = "year"      -> SubYears(now, 1)
      [] period = "thisMonth" -> StartOfMonth(now)
      [] period = "thisYear"  -> StartOfYear(now)
      [] OTHER                -> Epoch

\* switch (donutPeriod) { ... } in donutData
PeriodStart(period, now) ==
    CASE period = "week"      -> SubDays(now, 7)
      [] period = "month"     -> SubMonths(now, 1)
      [] period = "year"      -> SubYears(now, 1)
      [] period = "thisMonth" -> StartOfMonth(now)
      [] period = "thisYear"  -> StartOfYear(now)
      [] OTHER                -> Epoch

\* const txSource = (donutPeriod === "all" || donutPeriod === "thisYear")
\*                    ? allTransactions : transactions
TxSource(period) ==
    IF period = "all" \/ period = "thisYear" THEN allTransactions ELSE transactions

\* tx.category_name || "Uncategorized": null and the empty string are falsy
LabelOf(tx) ==
    IF tx.category_name = Null \/ tx.category_name = Some("")
    THEN "Uncategorized"
    ELSE tx.category_name[1]

\* .filter(tx => tx.amount < 0 && (donutPeriod === "all" || tx.date >= periodStartStr))
PeriodFilter(txs, period, periodStartStr) ==
    SelectSeq(txs, LAMBDA tx :
        tx.amount < 0 /\ (period = "all" \/ tx.date >= periodStartStr))

\* the position of periodSpending[cat], 0 when it is undefined
LabelIndex(spending, cat) ==
    IF \E i \in 1..Len(spending) : spending[i].label = cat
    THEN CHOOSE i \in 1..Len(spending) : spending[i].label = cat
    ELSE 0

\* periodSpending[cat] = (periodSpending[cat] || 0) + Math.abs(tx.amount)
\* periodSpending is a plain object keyed by category names: its entries are
\* kept in the order the labels were first seen
AddSpending(spending, tx) ==
    LET cat == LabelOf(tx)
        i   == LabelIndex(spending, cat)
    IN  IF i = 0
        THEN Append(spending, [label |-> cat, value |-> Abs(tx.amount)])
        ELSE [spending EXCEPT ![i].value = @ + Abs(tx.amount)]

RECURSIVE SumSpending(_, _)
SumSpending(spending, txs) ==
    IF txs = <<>> THEN spending
    ELSE Let(AddSpending(spending, txs[1]),
             LAMBDA next : SumSpending(next, Tail(txs)))

\* .sort((a, b) => b.value - a.value): descending, stable
SortByValueDesc(s) ==
    Let([i \in 1..Len(s) |-> [j \in 1..Len(s) |-> FLess(s[i].value, s[j].value)]],
        LAMBDA before : StableSort(s, before))

\* Object.entries(periodSpending)
\*   .map(([label, value]) => ({ label, value: value / 100 }))
\*   .sort((a, b) => b.value - a.value)
RankedItems(periodSpending) ==
    SortByValueDesc([i \in 1..Len(periodSpending) |->
                        [label |-> periodSpending[i].label,
                         value |-> Div100(periodSpending[i].value)]])

\* donutData ranking and truncating each account's categories before merging
\* them: the order of steps the breakdown must not have
RECURSIVE MergeTops(_, _)
MergeTops(spending, items) ==
    IF items = <<>> THEN spending
    ELSE LET i == LabelIndex(spending, items[1].label)
         IN  Let(IF i = 0 THEN Append(spending, items[1])
                 ELSE [spending EXCEPT ![i].value = @ + items[1].value],
                 LAMBDA next : MergeTops(next, Tail(items)))

DonutDataPerAccountFirst(txSource, period, now) ==
    LET counted == PeriodFilter(txSource, period, Format(PeriodStart(period, now)))
        Top(acc) ==
            LET own  == SumSpending(<<>>, SelectSeq(counted, LAMBDA tx : tx.account_id = acc))
                kept == Take(RankedItems(own), 5)
            IN  SelectSeq(own, LAMBDA e : \E i \in 1..Len(kept) : kept[i].label = e.label)
    IN  Let(MergeTops(Top(1), Top(2)), LAMBDA periodSpending :
        Let(RankedItems(periodSpending), LAMBDA allCategories :
            [totalSpent    |-> FSumFrom(Zero, [i \in 1..Len(allCategories) |->
                                                   allCategories[i].value]),
             topCategories |-> Take(allCategories, 5)]))

\* const donutData = useMemo(() => {...}, [transactions, allTransactions, donutPeriod])
DonutData(txSource, period, now) ==
    Let(SumSpending(<<>>, PeriodFilter(txSource, period, Format(PeriodStart(period, now)))),
        LAMBDA periodSpending :
    Let(RankedItems(periodSpending), LAMBDA allCategories :
        [totalSpent    |-> FSumFrom(Zero, [i \in 1..Len(allCategories) |->
                                               allCategories[i].value]),
         topCategories |-> Take(allCategories, 5)]))

(***************************************************************************)
(* The local store and the fetch functions of lib/api.ts                   *)
(***************************************************************************)
\* an Account as the store returns it: a persisted account, whose id is a number
Account(id) == [id |-> id]

AccountIds == { 1, 2 }

\* a Subscription as the store returns it
Subscription(acc, amount, frequency, active) ==
    [account_id |-> acc, amount |-> amount, frequency |-> frequency,
     is_active |-> active]

\* the store: its accounts, per account id its transactions (most recent
\* first) and its subscriptions, per month yyyymm (a function on the months
\* that have budgets) the budgets with their spending, and the income streams
StoreOf(accs, txs, subs) ==
    [accounts |-> accs, txs |-> txs, subs |-> subs,
     budgets |-> <<>>, incomeStreams |-> <<>>]

\* the store's range query behind getTransactionsByDateRange(id, start, end):
\* the transactions dated from start to end, both included
TransactionsByDateRange(txs, startStr, endStr) ==
    SelectSeq(txs, LAMBDA tx : startStr <= tx.date /\ tx.date <= endStr)

\* getAccounts()
GetAccounts(st) == st.accounts

\* getTransactionsByDateRange(accountId, startDate, endDate)
GetTransactionsByDateRange(st, id, startStr, endStr) ==
    TransactionsByDateRange(st.txs[id], startStr, endStr)

\* getTransactions(accountId, limit): limit is null when the argument is omitted
GetTransactions(st, id, limit) ==
    IF limit = Null THEN st.txs[id] ELSE Take(st.txs[id], limit[1])

\* getSubscriptions(accountId)
GetSubscriptions(st, id) == st.subs[id]

\* getBudgetsWithSpending(month)
GetBudgetsWithSpending(st, monthStr) ==
    IF monthStr \in DOMAIN st.budgets THEN st.budgets[monthStr] ELSE <<>>

\* getIncomeStreams()
GetIncomeStreams(st) == st.incomeStreams

(***************************************************************************)
(* loadDashboardData: one call is a record that moves through              *)
(*   "accounts"       awaiting getAccounts()                               *)
(*   "fanout"         awaiting the three fetches of every account          *)
(*   "subscriptions"  awaiting getSubscriptions of account number next     *)
(*   "done"           returned                                             *)
(*   "failed"         an awaited fetch was rejected and the catch ran      *)
(* The field updated records which of the page's state the call has set.   *)
(***************************************************************************)
FetchKinds == { "range", "spending", "latest" }

NewLoad(startStr, endStr) ==
    [pc |-> "accounts", startDateStr |-> startStr, endDateStr |-> endStr,
     accs |-> <<>>, pending |-> {}, txs |-> <<>>, latestTxs |-> <<>>,
     next |-> 0, allSubs |-> <<>>, updated |-> {}]

\* latestTxs.length > 0 ? (latestTxs[0].balance_snapshot || 0) : 0
LatestBal(latestTxs) ==
    IF Len(latestTxs) > 0
    THEN IF latestTxs[1].balance_snapshot = Null
         THEN 0
         ELSE latestTxs[1].balance_snapshot[1]
    ELSE 0

\* results.forEach: allTxs.push(...txs), account by account from number i on
RECURSIVE FoldTxs(_, _)
FoldTxs(txs, i) ==
    IF i > Len(txs) THEN <<>> ELSE txs[i] \o FoldTxs(txs, i + 1)

\* FoldBal with totalBal = latestBal in place of totalBal += latestBal
RECURSIVE FoldBalOverwriting(_, _)
FoldBalOverwriting(latestTxs, i) ==
    IF i > Len(latestTxs) THEN 0
    ELSE IF i = Len(latestTxs) THEN LatestBal(latestTxs[i])
    ELSE FoldBalOverwriting(latestTxs, i + 1)

\* results.forEach: totalBal += latestBal, account by account from number i on
RECURSIVE FoldBal(_, _)
FoldBal(latestTxs, i) ==
    IF i > Len(latestTxs) THEN 0
    ELSE LatestBal(latestTxs[i]) + FoldBal(latestTxs, i + 1)

\* for (const acc of accs) if (acc.id): the first account from number i on
\* whose id is truthy, or Len(accs) + 1 (the accounts of the store carry a
\* number as id, never null)
RECURSIVE NextWithId(_, _)
NextWithId(accs, i) ==
    IF i > Len(accs) THEN i
    ELSE IF accs[i].id # 0 THEN i
    ELSE NextWithId(accs, i + 1)

\* a call of loadAllTransactions: the accounts it iterates, the number of the
\* account whose getTransactions it awaits, and what it has collected;
\* pc is "run", "done" or "failed"
NewRequest(accs) == [pc |-> "run", accs |-> accs, next |-> 1, allTxs |-> <<>>]

\* the effect on [donutPeriod, accounts]: loadAllTransactions returns at once
\* unless the period is all or thisYear and there are accounts
LoadAllTransactions(period, accs, reqs) ==
    IF (period # "all" /\ period # "thisYear") \/ Len(accs) = 0
    THEN reqs
    ELSE Append(reqs, NewRequest(accs))

(***************************************************************************)
(* Store contents and quiescent parts of the state                         *)
(***************************************************************************)
NoTxs == [id \in AccountIds |-> <<>>]

NoSubs == [id \in AccountIds |-> <<>>]

\* a store without accounts
StoreNone == StoreOf(<<>>, NoTxs, NoSubs)

\* two accounts; the first has an expense and an older income and one
\* subscription, the second is empty
StoreA ==
    StoreOf(<<Account(1), Account(2)>>,
            [NoTxs EXCEPT ![1] =
                << Tx(1, 20240531, -40, "market", Some("Food"), Some(500)),
                   Tx(1, 20240229, 90, "employer", Null, Some(540)) >>],
            [NoSubs EXCEPT ![1] = << Subscription(1, -10, "monthly", TRUE) >>])

\* StoreA after an import into the second account: a transaction without a
\* balance snapshot in front of one with a snapshot, and a subscription
StoreB ==
    StoreOf(StoreA.accounts,
            [StoreA.txs EXCEPT ![2] =
                << Tx(2, 20240604, -15, "store", Some("Gym"), Null),
                   Tx(2, 20240530, 25, "refund", Some("Gym"), Some(70)) >>],
            [StoreA.subs EXCEPT ![2] = << Subscription(2, -24, "yearly", TRUE) >>])

Stores == { StoreNone, StoreA, StoreB }

\* the dashboard after a load, with nothing in flight
DashboardLoaded ==
    /\ accounts = <<Account(1), Account(2)>>
    /\ subscriptions = <<>>
    /\ totalBalance = 0
    /\ loading = FALSE
    /\ monthlySubscriptionCost = <<>>
    /\ currentMonthSpending = <<>>
    /\ currentMonthIncome = <<>>
    /\ upcomingCharges = <<>>
    /\ loads = <<>>
    /\ requests = <<>>

\* the store is not used
StoreQuiet == store = StoreA /\ storeChanges = 0

\* the dashboard on 31 May 2024 with nothing loaded and nothing rendered
DashboardQuiet ==
    /\ today = <<2024, 5, 31>>
    /\ transactions = <<>>
    /\ allTransactions = <<>>
    /\ donutPeriod = "thisMonth"
    /\ dailyData = <<>>
    /\ donutData = <<>>
    /\ DashboardLoaded

\* no category tree has been built
TreeIdle == categories = <<>> /\ tree = <<>>

\* the import dialog as it is constructed: closed, nothing chosen
DialogClosed ==
    /\ isOpen = FALSE
    /\ step = "select"
    /\ importAccounts = <<>>
    /\ importAccountId = <<>>
    /\ selectedFile = <<>>
    /\ result = <<>>
    /\ error = <<>>
    /\ accountFetches = <<>>
    /\ imports = <<>>

\* the transactions page is not mounted
TransactionsIdle ==
    /\ pageAccounts = <<>>
    /\ selectedAccountId = <<>>
    /\ pageTransactions = <<>>
    /\ pageLoading = TRUE
    /\ accountLoads = 0
    /\ fetches = <<>>

\* the budgets page is not mounted
BudgetsIdle ==
    /\ currentMonth = <<2024, 5, 31>>
    /\ budgets = <<>>
    /\ incomeStreams = <<>>
    /\ budgetsLoading = FALSE
    /\ budgetLoads = <<>>
    /\ utilization = <<>>
    /\ totalExpectedIncome = <<>>

(***************************************************************************)
(* SpecDaily: dailyData over bounded transaction lists                     *)
(***************************************************************************)
MaxDailyTx == 2

\* reference days: one whose window starts at a month-end clamp in a leap year
\* (31 May - 3 months = 29 February), one whose window spans the turn of a year
TodaySet == { <<2024, 5, 31>>, <<2025, 1, 2>> }

DailyAmounts == { -10, 0, 10, 20 }

\* the day before the window, its first day, its last day, the day after
DailyDates(t) ==
    { Format(SubDays(SubMonths(t, 3), 1)), Format(SubMonths(t, 3)),
      Format(AddDays(t, 3)), Format(AddDays(t, 4)) }

DailyTxs(t) ==
    { Tx(1, dt, a, "shop", Some("Food"), Some(0)) : dt \in DailyDates(t), a \in DailyAmounts }

InitDaily ==
    /\ today \in TodaySet
    /\ transactions \in SeqsUpTo(DailyTxs(today), MaxDailyTx)
    /\ allTransactions = <<>>
    /\ donutPeriod = "thisMonth"
    /\ dailyData = <<>>
    /\ donutData = <<>>
    /\ DashboardLoaded /\ StoreQuiet /\ TreeIdle /\ BudgetsIdle /\ DialogClosed /\ TransactionsIdle

\* a render: the memo recomputes dailyData from the current state
RenderDaily ==
    /\ dailyData = <<>>
    /\ dailyData' = DailyData(transactions, StartDate, EndDate)
    /\ UNCHANGED <<pageVars, donutData, monthlySubscriptionCost, currentMonthSpending,
                   currentMonthIncome, upcomingCharges, loaderVars,
                   treeVars, dialogVars, transactionsVars,
                   budgetVars>>

NextDaily == RenderDaily

SpecDaily == InitDaily /\ [][NextDaily]_vars


(***************************************************************************)
(* SpecDonut: donutData over transaction lists of two accounts             *)
(***************************************************************************)
MaxDonutTx == 2

\* account 1: six categories, not in ranking order
BaseTxs(t) ==
    << Tx(1, Format(t), -12, "press", Some("Books"), Some(0)),
       Tx(1, Format(t), -20, "garage", Some("Car"), Some(0)),
       Tx(1, Format(t), -50, "landlord", Some("Rent"), Some(0)),
       Tx(1, Format(t), -10, "club", Some("Gym"), Some(0)),
       Tx(1, Format(t), -40, "market", Some("Food"), Some(0)),
       Tx(1, Format(t), -30, "cinema", Some("Fun"), Some(0)) >>

\* account 2: a category of account 1, a sixth category, or none; an expense
\* below or above the totals of account 1, or an income
OtherTxs(t) ==
    { Tx(2, Format(t), a, "store", c, Some(0)) :
        a \in { -15, -45, 30 }, c \in { Some("Gym"), Some("Pets"), Null } }

InitDonut ==
    /\ today \in TodaySet
    /\ \E base \in { <<>>, BaseTxs(today) } :
         \E other \in SeqsUpTo(OtherTxs(today), MaxDonutTx) :
            \* the fold of loadDashboardData: allTxs.push(...txs), account by account
            transactions = base \o other
    /\ allTransactions = transactions
    /\ donutPeriod \in Periods
    /\ dailyData = <<>>
    /\ donutData = <<>>
    /\ DashboardLoaded /\ StoreQuiet /\ TreeIdle /\ BudgetsIdle /\ DialogClosed /\ TransactionsIdle

\* a render: the memo recomputes donutData from the current state
RenderDonut ==
    /\ donutData = <<>>
    /\ donutData' = DonutData(TxSource(donutPeriod), donutPeriod, today)
    /\ UNCHANGED <<pageVars, dailyData, monthlySubscriptionCost, currentMonthSpending,
                   currentMonthIncome, upcomingCharges, loaderVars,
                   treeVars, dialogVars, transactionsVars,
                   budgetVars>>

NextDonut == RenderDonut

SpecDonut == InitDonut /\ [][NextDonut]_vars

(***************************************************************************)
(* SpecPeriod: donutData over every selector and dates around the period   *)
(* boundaries                                                              *)
(***************************************************************************)
MaxPeriodTx == 1

\* reference days: a month-end (one month back is clamped to 29 February), a
\* leap day (one year back is clamped to 28 February), a first day of a year
PeriodTodays == { <<2024, 3, 31>>, <<2024, 2, 29>>, <<2025, 1, 1>> }

\* each period's first day and the day before it, today, and tomorrow
PeriodDates(t) ==
    UNION { { Format(PeriodStart(p, t)), Format(PrevDay(PeriodStart(p, t))) } :
              p \in Periods \ {"all"} }
    \cup { Format(t), Format(NextDay(t)) }

PeriodTxs(t) ==
    { Tx(1, dt, a, "shop", Some("Food"), Some(0)) :
        dt \in PeriodDates(t), a \in { -10, 10 } }

InitPeriod ==
    /\ today \in PeriodTodays
    /\ allTransactions \in SeqsUpTo(PeriodTxs(today), MaxPeriodTx)
    /\ transactions =
         TransactionsByDateRange(allTransactions, Format(StartDate), Format(EndDate))
    /\ donutPeriod \in Periods
    /\ dailyData = <<>>
    /\ donutData = <<>>
    /\ DashboardLoaded /\ StoreQuiet /\ TreeIdle /\ BudgetsIdle /\ DialogClosed /\ TransactionsIdle

NextPeriod == RenderDonut

SpecPeriod == InitPeriod /\ [][NextPeriod]_vars

(***************************************************************************)
(* The dashboard's loaders as processes.  A fetch is answered from the     *)
(* store as it is when the answer arrives, or rejected.                    *)
(***************************************************************************)
MaxLoads == 2

MaxStoreChanges == 1

MaxRequests == 2

\* the rest of the state, which no loader touches
LoaderFrame == UNCHANGED <<today, memoVars,
                           treeVars, dialogVars, transactionsVars, budgetVars>>

\* const accs = await getAccounts(); setAccounts(accs); then either the
\* fan-out begins or, with no accounts, the call ends.  The new accounts
\* array re-runs the effect on [donutPeriod, accounts].
AccountsResolve(l) ==
    /\ loads[l].pc = "accounts"
    /\ LET accs == GetAccounts(store)
           n == Len(accs)
       IN /\ accounts' = accs
          /\ IF n > 0
             THEN /\ loads' = [loads EXCEPT ![l] =
                        [@ EXCEPT !.pc = "fanout", !.accs = accs,
                                  !.pending = { <<i, k>> : i \in 1..n, k \in FetchKinds },
                                  !.txs = [i \in 1..n |-> <<>>],
                                  !.latestTxs = [i \in 1..n |-> <<>>]]]
                  /\ loading' = loading
             ELSE /\ loads' = [loads EXCEPT ![l] = [@ EXCEPT !.pc = "done"]]
                  /\ loading' = FALSE
          /\ requests' = LoadAllTransactions(donutPeriod, accs, requests)
    /\ UNCHANGED <<transactions, allTransactions, subscriptions, totalBalance,
                   donutPeriod, store, storeChanges>>
    /\ LoaderFrame

\* FetchResolve collecting the answers of the range queries in the order in
\* which they arrive instead of the order of the accounts
FetchResolveArrivalOrder(l, f) ==
    /\ loads[l].pc = "fanout"
    /\ f \in loads[l].pending
    /\ LET cur == loads[l]
           id == cur.accs[f[1]].id
           arrived == Cardinality({ i \in 1..Len(cur.accs) : <<i, "range">> \notin cur.pending })
           got == [cur EXCEPT
                     !.pending = @ \ {f},
                     !.txs[IF f[2] = "range" THEN arrived + 1 ELSE f[1]] =
                        IF f[2] = "range"
                        THEN GetTransactionsByDateRange(store, id, cur.startDateStr,
                                                        cur.endDateStr)
                        ELSE @,
                     !.latestTxs[f[1]] =
                        IF f[2] = "latest" THEN GetTransactions(store, id, Some(1)) ELSE @]
           first == NextWithId(cur.accs, 1)
       IN IF got.pending # {}
          THEN /\ loads' = [loads EXCEPT ![l] = got]
               /\ UNCHANGED <<transactions, totalBalance, subscriptions, loading>>
          ELSE /\ transactions' = FoldTxs(got.txs, 1)
               /\ totalBalance' = FoldBal(got.latestTxs, 1)
               /\ IF first <= Len(cur.accs)
                  THEN /\ loads' = [loads EXCEPT ![l] =
                             [got EXCEPT !.pc = "subscriptions", !.next = first,
                                         !.updated = { "transactions", "totalBalance" }]]
                       /\ UNCHANGED <<subscriptions, loading>>
                  ELSE /\ loads' = [loads EXCEPT ![l] =
                             [got EXCEPT !.pc = "done",
                                         !.updated = { "transactions", "totalBalance",
                                                       "subscriptions" }]]
                       /\ subscriptions' = <<>>
                       /\ loading' = FALSE
    /\ UNCHANGED <<accounts, allTransactions, donutPeriod, store, storeChanges, requests>>
    /\ LoaderFrame

\* FetchResolve folding and setting transactions and totalBalance with every
\* answer instead of waiting for the last one
FetchResolveEager(l, f) ==
    /\ loads[l].pc = "fanout"
    /\ f \in loads[l].pending
    /\ LET cur == loads[l]
           id == cur.accs[f[1]].id
           got == [cur EXCEPT
                     !.pending = @ \ {f},
                     !.txs[f[1]] =
                        IF f[2] = "range"
                        THEN GetTransactionsByDateRange(store, id, cur.startDateStr,
                                                        cur.endDateStr)
                        ELSE @,
                     !.latestTxs[f[1]] =
                        IF f[2] = "latest" THEN GetTransactions(store, id, Some(1)) ELSE @]
           first == NextWithId(cur.accs, 1)
       IN /\ transactions' = FoldTxs(got.txs, 1)
          /\ totalBalance' = FoldBal(got.latestTxs, 1)
          /\ IF got.pending # {}
             THEN /\ loads' = [loads EXCEPT ![l] =
                        [got EXCEPT !.updated = { "transactions", "totalBalance" }]]
                  /\ UNCHANGED <<subscriptions, loading>>
             ELSE IF first <= Len(cur.accs)
                  THEN /\ loads' = [loads EXCEPT ![l] =
                             [got EXCEPT !.pc = "subscriptions", !.next = first,
                                         !.updated = { "transactions", "totalBalance" }]]
                       /\ UNCHANGED <<subscriptions, loading>>
                  ELSE /\ loads' = [loads EXCEPT ![l] =
                             [got EXCEPT !.pc = "done",
                                         !.updated = { "transactions", "totalBalance",
                                                       "subscriptions" }]]
                       /\ subscriptions' = <<>>
                       /\ loading' = FALSE
    /\ UNCHANGED <<accounts, allTransactions, donutPeriod, store, storeChanges, requests>>
    /\ LoaderFrame

\* one of the fetches of the fan-out is answered; with the last answer the
\* results are folded, transactions and totalBalance are set and the
\* subscriptions loop begins
FetchResolve(l, f) ==
    /\ loads[l].pc = "fanout"
    /\ f \in loads[l].pending
    /\ LET cur == loads[l]
           id == cur.accs[f[1]].id
           got == [cur EXCEPT
                     !.pending = @ \ {f},
                     !.txs[f[1]] =
                        IF f[2] = "range"
                        THEN GetTransactionsByDateRange(store, id, cur.startDateStr,
                                                        cur.endDateStr)
                        ELSE @,
                     !.latestTxs[f[1]] =
                        IF f[2] = "latest" THEN GetTransactions(store, id, Some(1)) ELSE @]
           first == NextWithId(cur.accs, 1)
       IN IF got.pending # {}
          THEN /\ loads' = [loads EXCEPT ![l] = got]
               /\ UNCHANGED <<transactions, totalBalance, subscriptions, loading>>
          ELSE /\ transactions' = FoldTxs(got.txs, 1)
               /\ totalBalance' = FoldBal(got.latestTxs, 1)
               /\ IF first <= Len(cur.accs)
                  THEN /\ loads' = [loads EXCEPT ![l] =
                             [got EXCEPT !.pc = "subscriptions", !.next = first,
                                         !.updated = { "transactions", "totalBalance" }]]
                       /\ UNCHANGED <<subscriptions, loading>>
                  ELSE /\ loads' = [loads EXCEPT ![l] =
                             [got EXCEPT !.pc = "done",
                                         !.updated = { "transactions", "totalBalance",
                                                       "subscriptions" }]]
                       /\ subscriptions' = <<>>
                       /\ loading' = FALSE
    /\ UNCHANGED <<accounts, allTransactions, donutPeriod, store, storeChanges, requests>>
    /\ LoaderFrame

\* const subs = await getSubscriptions(acc.id); allSubs.push(...subs); after
\* the last account setSubscriptions(allSubs) and the finally block
SubscriptionsResolve(l) ==
    /\ loads[l].pc = "subscriptions"
    /\ LET cur == loads[l]
           all == cur.allSubs \o GetSubscriptions(store, cur.accs[cur.next].id)
           j == NextWithId(cur.accs, cur.next + 1)
       IN IF j <= Len(cur.accs)
          THEN /\ loads' = [loads EXCEPT ![l] = [cur EXCEPT !.next = j, !.allSubs = all]]
               /\ UNCHANGED <<subscriptions, loading>>
          ELSE /\ loads' = [loads EXCEPT ![l] =
                     [cur EXCEPT !.pc = "done", !.allSubs = all,
                                 !.updated = @ \cup { "subscriptions" }]]
               /\ subscriptions' = all
               /\ loading' = FALSE
    /\ UNCHANGED <<accounts, transactions, allTransactions, totalBalance, donutPeriod,
                   store, storeChanges, requests>>
    /\ LoaderFrame

\* Caught without the finally block
CaughtWithoutFinally(l) ==
    /\ loads' = [loads EXCEPT ![l] = [@ EXCEPT !.pc = "failed", !.pending = {}]]
    /\ UNCHANGED <<accounts, transactions, allTransactions, subscriptions, totalBalance,
                   loading, donutPeriod, store, storeChanges, requests>>
    /\ LoaderFrame

\* catch (error) { console.error(...) } finally { setLoading(false) }
Caught(l) ==
    /\ loads' = [loads EXCEPT ![l] = [@ EXCEPT !.pc = "failed", !.pending = {}]]
    /\ loading' = FALSE
    /\ UNCHANGED <<accounts, transactions, allTransactions, subscriptions, totalBalance,
                   donutPeriod, store, storeChanges, requests>>
    /\ LoaderFrame

\* getAccounts() is rejected
AccountsReject(l) == loads[l].pc = "accounts" /\ Caught(l)

\* one of the fetches of the fan-out is rejected: Promise.all rejects
FetchReject(l, f) == loads[l].pc = "fanout" /\ f \in loads[l].pending /\ Caught(l)

\* getSubscriptions(acc.id) is rejected
SubscriptionsReject(l) == loads[l].pc = "subscriptions" /\ Caught(l)

\* a render on the next day: startDateStr and endDateStr change and the
\* effect calls loadDashboardData again
DayRollover ==
    /\ Len(loads) < MaxLoads
    /\ today' = NextDay(today)
    /\ loads' = Append(loads, NewLoad(Format(SubMonths(today', 3)),
                                      Format(AddDays(today', 3))))
    /\ UNCHANGED <<accounts, transactions, allTransactions, subscriptions, totalBalance,
                   loading, donutPeriod, memoVars, store, storeChanges, requests,
                   treeVars, dialogVars, transactionsVars, budgetVars>>

\* the store changes under the page (an import, a deletion)
StoreChange ==
    /\ storeChanges < MaxStoreChanges
    /\ store' \in Stores \ {store}
    /\ storeChanges' = storeChanges + 1
    /\ UNCHANGED <<pageVars, memoVars, loads, requests,
                   treeVars, dialogVars, transactionsVars, budgetVars>>

\* the user picks another period: setDonutPeriod(p) re-runs the effect
SetDonutPeriod(p) ==
    /\ Len(requests) < MaxRequests
    /\ p # donutPeriod
    /\ donutPeriod' = p
    /\ requests' = LoadAllTransactions(p, accounts, requests)
    /\ UNCHANGED <<accounts, transactions, allTransactions, subscriptions, totalBalance,
                   loading, store, storeChanges, loads>>
    /\ LoaderFrame

\* const txs = await getTransactions(acc.id); allTxs.push(...txs); after the
\* last account setAllTransactions(allTxs)
RequestResolve(r) ==
    /\ requests[r].pc = "run"
    /\ LET cur == requests[r]
           all == cur.allTxs \o GetTransactions(store, cur.accs[cur.next].id, Null)
       IN IF cur.next < Len(cur.accs)
          THEN /\ requests' = [requests EXCEPT ![r] =
                     [cur EXCEPT !.next = @ + 1, !.allTxs = all]]
               /\ UNCHANGED allTransactions
          ELSE /\ requests' = [requests EXCEPT ![r] =
                     [cur EXCEPT !.pc = "done", !.allTxs = all]]
               /\ allTransactions' = all
    /\ UNCHANGED <<accounts, transactions, subscriptions, totalBalance, loading,
                   donutPeriod, store, storeChanges, loads>>
    /\ LoaderFrame

\* getTransactions(acc.id) is rejected: catch (error) { console.error(...) }
RequestReject(r) ==
    /\ requests[r].pc = "run"
    /\ requests' = [requests EXCEPT ![r] = [@ EXCEPT !.pc = "failed"]]
    /\ UNCHANGED <<pageVars, store, storeChanges, loads>>
    /\ LoaderFrame

\* the page as it is mounted: the first render has called loadDashboardData
Mounted(t) ==
    /\ today = t
    /\ accounts = <<>>
    /\ transactions = <<>>
    /\ allTransactions = <<>>
    /\ subscriptions = <<>>
    /\ totalBalance = 0
    /\ loading = TRUE
    /\ donutPeriod = "thisMonth"
    /\ dailyData = <<>>
    /\ donutData = <<>>
    /\ monthlySubscriptionCost = <<>>
    /\ currentMonthSpending = <<>>
    /\ currentMonthIncome = <<>>
    /\ upcomingCharges = <<>>
    /\ store \in Stores
    /\ storeChanges = 0
    /\ loads = << NewLoad(Format(SubMonths(t, 3)), Format(AddDays(t, 3))) >>
    /\ requests = <<>>
    /\ TreeIdle /\ BudgetsIdle /\ DialogClosed /\ TransactionsIdle

(***************************************************************************)
(* Spec: loadDashboardData over days and store changes                     *)
(***************************************************************************)
Init == Mounted(<<2024, 5, 31>>)

Next ==
    \/ \E l \in DOMAIN loads : AccountsResolve(l)
    \/ \E l \in DOMAIN loads : AccountsReject(l)
    \/ \E l \in DOMAIN loads : \E f \in loads[l].pending : FetchResolve(l, f)
    \/ \E l \in DOMAIN loads : \E f \in loads[l].pending : FetchReject(l, f)
    \/ \E l \in DOMAIN loads : SubscriptionsResolve(l)
    \/ \E l \in DOMAIN loads : SubscriptionsReject(l)
    \/ DayRollover
    \/ StoreChange

Spec == Init /\ [][Next]_vars

(***************************************************************************)
(* SpecAllTx: loadAllTransactions under changes of the period selector,    *)
(* within one day                                                          *)
(***************************************************************************)
InitAllTx == Mounted(<<2024, 5, 31>>)

NextAllTx ==
    \/ \E l \in DOMAIN loads : AccountsResolve(l)
    \/ \E l \in DOMAIN loads : AccountsReject(l)
    \/ \E l \in DOMAIN loads : \E f \in loads[l].pending : FetchResolve(l, f)
    \/ \E l \in DOMAIN loads : \E f \in loads[l].pending : FetchReject(l, f)
    \/ \E l \in DOMAIN loads : SubscriptionsResolve(l)
    \/ \E l \in DOMAIN loads : SubscriptionsReject(l)
    \/ \E p \in Periods : SetDonutPeriod(p)
    \/ \E r \in DOMAIN requests : RequestResolve(r)
    \/ \E r \in DOMAIN requests : RequestReject(r)
    \/ StoreChange

SpecAllTx == InitAllTx /\ [][NextAllTx]_vars

(***************************************************************************)
(* buildCategoryTree.  A node is identified by its category id; the result *)
(* is the array of roots together with the children array of every node    *)
(* of the map.                                                             *)
(***************************************************************************)
\* a Category as the store returns it; parent_id may be null
Category(id, parent) == [id |-> id, parent_id |-> parent]

\* first pass: map.set(cat.id, { ...cat, children: [] })
FirstPass(cats) == [id \in { cats[i].id : i \in DOMAIN cats } |-> <<>>]

\* second pass from category number i on: a category without parent is
\* pushed to roots, one whose parent is in the map to the parent's children,
\* any other is skipped
RECURSIVE SecondPass(_, _, _, _)
SecondPass(cats, i, roots, children) ==
    IF i > Len(cats) THEN [roots |-> roots, children |-> children]
    ELSE IF cats[i].parent_id = Null
    THEN SecondPass(cats, i + 1, Append(roots, cats[i].id), children)
    ELSE IF cats[i].parent_id[1] \in DOMAIN children
    THEN SecondPass(cats, i + 1, roots,
                    [children EXCEPT ![cats[i].parent_id[1]] = Append(@, cats[i].id)])
    ELSE SecondPass(cats, i + 1, roots, children)

\* a second pass that pushes a category with an unknown parent to roots
RECURSIVE SecondPassPromoting(_, _, _, _)
SecondPassPromoting(cats, i, roots, children) ==
    IF i > Len(cats) THEN [roots |-> roots, children |-> children]
    ELSE IF cats[i].parent_id = Null \/ cats[i].parent_id[1] \notin DOMAIN children
    THEN SecondPassPromoting(cats, i + 1, Append(roots, cats[i].id), children)
    ELSE SecondPassPromoting(cats, i + 1, roots,
                    [children EXCEPT ![cats[i].parent_id[1]] = Append(@, cats[i].id)])

BuildCategoryTreePromoting(cats) == SecondPassPromoting(cats, 1, <<>>, FirstPass(cats))

\* a second pass that pushes every category to roots, also one that it has
\* pushed to its parent's children
RECURSIVE SecondPassRooting(_, _, _, _)
SecondPassRooting(cats, i, roots, children) ==
    IF i > Len(cats) THEN [roots |-> roots, children |-> children]
    ELSE IF cats[i].parent_id # Null /\ cats[i].parent_id[1] \in DOMAIN children
    THEN SecondPassRooting(cats, i + 1, Append(roots, cats[i].id),
                    [children EXCEPT ![cats[i].parent_id[1]] = Append(@, cats[i].id)])
    ELSE SecondPassRooting(cats, i + 1, Append(roots, cats[i].id), children)

BuildCategoryTreeRooting(cats) == SecondPassRooting(cats, 1, <<>>, FirstPass(cats))

\* buildCategoryTree in a single pass: a node is put into the map when its
\* category is reached, so a category listed before its parent is skipped
RECURSIVE SinglePass(_, _, _, _)
SinglePass(cats, i, roots, children) ==
    IF i > Len(cats) THEN [roots |-> roots, children |-> children]
    ELSE LET known == [id \in DOMAIN children \cup { cats[i].id } |->
                          IF id \in DOMAIN children THEN children[id] ELSE <<>>]
         IN  IF cats[i].parent_id = Null
             THEN SinglePass(cats, i + 1, Append(roots, cats[i].id), known)
             ELSE IF cats[i].parent_id[1] \in DOMAIN known
             THEN SinglePass(cats, i + 1, roots,
                             [known EXCEPT ![cats[i].parent_id[1]] = Append(@, cats[i].id)])
             ELSE SinglePass(cats, i + 1, roots, known)

BuildCategoryTreeSinglePass(cats) == SinglePass(cats, 1, <<>>, <<>>)

BuildCategoryTree(cats) == SecondPass(cats, 1, <<>>, FirstPass(cats))

(***************************************************************************)
(* SpecTree: buildCategoryTree over bounded category lists                 *)
(***************************************************************************)
MaxCategories == 3

CategoryIds == 1..MaxCategories

\* no parent, the id of a category, or 0, the id of no category
ParentIds == { Null } \cup { Some(k) : k \in 0..MaxCategories }

\* the lists of categories with pairwise different ids
CategoryLists ==
    { cats \in SeqsUpTo({ Category(id, parent) : id \in CategoryIds, parent \in ParentIds },
                        MaxCategories) :
        \A i, j \in DOMAIN cats : cats[i].id = cats[j].id => i = j }

InitTree ==
    /\ categories \in CategoryLists
    /\ tree = <<>>
    /\ DashboardQuiet /\ StoreQuiet /\ BudgetsIdle /\ DialogClosed /\ TransactionsIdle

\* the categories page renders: const tree = buildCategoryTree(categories)
BuildTree ==
    /\ tree = <<>>
    /\ tree' = BuildCategoryTree(categories)
    /\ UNCHANGED <<categories, pageVars, memoVars, loaderVars,
                   budgetVars, dialogVars, transactionsVars>>

NextTree == BuildTree

SpecTree == InitTree /\ [][NextTree]_vars

(***************************************************************************)
(* BudgetsPage: utilization, totalExpectedIncome and loadData              *)
(***************************************************************************)
\* a BudgetWithSpending as the store returns it
BudgetWithSpending(id, allocated, spent) ==
    [budget |-> [id |-> id], allocated_amount |-> allocated, spent_amount |-> spent]

\* an IncomeStream as the store returns it
IncomeStream(amount, frequency, active) ==
    [expected_amount |-> amount, frequency |-> frequency, is_active |-> active]

\* b.allocated_amount > 0
\*   ? Math.min(100, (b.spent_amount / b.allocated_amount) * 100) : 0
Percent(b) ==
    IF b.allocated_amount > 0
    THEN RatMin(Rat(100, 1), Rat(b.spent_amount * 100, b.allocated_amount))
    ELSE Rat(0, 1)

\* an over-budget flag read off the clamped percentage
IsOverBudgetClamped(b) == ~RatLeq(Percent(b), Rat(100, 1))

\* b.spent_amount > b.allocated_amount
IsOverBudget(b) == b.spent_amount > b.allocated_amount

\* budgets.map((b) => ...): the percent and isOverBudget of every card
Utilization(bs) ==
    [i \in 1..Len(bs) |->
        [percent |-> Percent(bs[i]), isOverBudget |-> IsOverBudget(bs[i])]]

\* the switch of totalExpectedIncome on s.frequency
IncomeMonthly(s) ==
    CASE s.frequency = "weekly" -> Rat(s.expected_amount * 433, 100)
      [] s.frequency = "biweekly" -> Rat(s.expected_amount * 217, 100)
      [] s.frequency = "yearly" -> Rat(s.expected_amount, 12)
      [] OTHER -> Rat(s.expected_amount, 1)

\* list.reduce((acc, x) => acc + x, acc0) on fractions
RECURSIVE RatSumFrom(_, _)
RatSumFrom(acc, xs) ==
    IF xs = <<>> THEN acc ELSE RatSumFrom(RatAdd(acc, xs[1]), Tail(xs))

\* totalExpectedIncome without the filter on is_active
TotalExpectedIncomeUnfiltered(streams) ==
    RatSumFrom(Rat(0, 1), [i \in 1..Len(streams) |-> IncomeMonthly(streams[i])])

\* incomeStreams.filter(s => s.is_active).reduce(..., 0)
TotalExpectedIncome(streams) ==
    LET active == SelectSeq(streams, LAMBDA st : st.is_active)
    IN  RatSumFrom(Rat(0, 1), [i \in 1..Len(active) |-> IncomeMonthly(active[i])])

\* a call of loadData: pc is "fetch" while Promise.all is awaited, then "done"
\* or "failed"
NewBudgetLoad(monthStr) ==
    [pc |-> "fetch", monthStr |-> monthStr, pending |-> { "budgets", "income" },
     budgetData |-> <<>>, incomeData |-> <<>>]

MaxBudgetLoads == 2

\* setCurrentMonth(d); when monthStr changes the effect calls loadData, which
\* begins with setLoading(true)
SetCurrentMonth(d) ==
    /\ Len(budgetLoads) < MaxBudgetLoads
    /\ currentMonth' = d
    /\ IF FormatMonth(d) # FormatMonth(currentMonth)
       THEN /\ budgetLoads' = Append(budgetLoads, NewBudgetLoad(FormatMonth(d)))
            /\ budgetsLoading' = TRUE
       ELSE UNCHANGED <<budgetLoads, budgetsLoading>>
    /\ UNCHANGED <<budgets, incomeStreams, utilization, totalExpectedIncome,
                   pageVars, memoVars, loaderVars, treeVars, dialogVars, transactionsVars>>

\* handlePrevMonth: setCurrentMonth(subMonths(currentMonth, 1))
HandlePrevMonth == SetCurrentMonth(SubMonths(currentMonth, 1))

\* handleNextMonth: setCurrentMonth(addMonths(currentMonth, 1))
HandleNextMonth == SetCurrentMonth(AddMonths(currentMonth, 1))

\* handleCurrentMonth: setCurrentMonth(startOfMonth(new Date()))
HandleCurrentMonth == SetCurrentMonth(StartOfMonth(today))

\* one of the two fetches of loadData is answered; with the second answer
\* setBudgets, setIncomeStreams and setLoading(false) run and the page renders
BudgetFetchResolve(l, f) ==
    /\ budgetLoads[l].pc = "fetch"
    /\ f \in budgetLoads[l].pending
    /\ LET cur == budgetLoads[l]
           got == [cur EXCEPT
                     !.pending = @ \ {f},
                     !.budgetData =
                        IF f = "budgets" THEN GetBudgetsWithSpending(store, cur.monthStr)
                        ELSE @,
                     !.incomeData = IF f = "income" THEN GetIncomeStreams(store) ELSE @]
       IN IF got.pending # {}
          THEN /\ budgetLoads' = [budgetLoads EXCEPT ![l] = got]
               /\ UNCHANGED <<budgets, incomeStreams, budgetsLoading, utilization,
                              totalExpectedIncome>>
          ELSE /\ budgetLoads' = [budgetLoads EXCEPT ![l] = [got EXCEPT !.pc = "done"]]
               /\ budgets' = got.budgetData
               /\ incomeStreams' = got.incomeData
               /\ budgetsLoading' = FALSE
               /\ utilization' = Utilization(got.budgetData)
               /\ totalExpectedIncome' = TotalExpectedIncome(got.incomeData)
    /\ UNCHANGED <<currentMonth, pageVars, memoVars, loaderVars,
                   treeVars, dialogVars, transactionsVars>>

\* one of the two fetches is rejected: the catch block, then setLoading(false)
BudgetFetchReject(l, f) ==
    /\ budgetLoads[l].pc = "fetch"
    /\ f \in budgetLoads[l].pending
    /\ budgetLoads' = [budgetLoads EXCEPT ![l] = [@ EXCEPT !.pc = "failed", !.pending = {}]]
    /\ budgetsLoading' = FALSE
    /\ UNCHANGED <<currentMonth, budgets, incomeStreams, utilization, totalExpectedIncome,
                   pageVars, memoVars, loaderVars, treeVars, dialogVars, transactionsVars>>

(***************************************************************************)
(* SpecBudget: the budgets page over months and bounded budget lists       *)
(***************************************************************************)
MaxBudgets == 2

\* <<allocated, spent>>: nothing allocated, spending at, below and above the
\* allocation, and an allocation below zero
BudgetRows ==
    { BudgetWithSpending(1, r[1], r[2]) :
        r \in { <<0, 500>>, <<100, 100>>, <<100, 50>>, <<100, 500>>, <<-100, 50>> } }

\* the budgets of May 2024 are any list; April has one budget, other months none
BudgetStores ==
    { [StoreA EXCEPT
         !.budgets = (202405 :> may) @@ (202404 :> << BudgetWithSpending(1, 100, 100) >>),
         !.incomeStreams = << IncomeStream(1200, "yearly", TRUE),
                              IncomeStream(100, "weekly", FALSE) >>] :
        may \in SeqsUpTo(BudgetRows, MaxBudgets) }

\* the page as it is mounted on 31 May 2024: currentMonth is new Date() and
\* the first render has called loadData
InitBudget ==
    /\ DashboardQuiet /\ TreeIdle /\ DialogClosed /\ TransactionsIdle
    /\ store \in BudgetStores
    /\ storeChanges = 0
    /\ currentMonth = today
    /\ budgets = <<>>
    /\ incomeStreams = <<>>
    /\ budgetsLoading = TRUE
    /\ budgetLoads = << NewBudgetLoad(FormatMonth(today)) >>
    /\ utilization = Utilization(<<>>)
    /\ totalExpectedIncome = TotalExpectedIncome(<<>>)

NextBudget ==
    \/ HandlePrevMonth
    \/ HandleNextMonth
    \/ HandleCurrentMonth
    \/ \E l \in DOMAIN budgetLoads : \E f \in budgetLoads[l].pending : BudgetFetchResolve(l, f)
    \/ \E l \in DOMAIN budgetLoads : \E f \in budgetLoads[l].pending : BudgetFetchReject(l, f)

SpecBudget == InitBudget /\ [][NextBudget]_vars

(***************************************************************************)
(* monthlySubscriptionCost of the dashboard                                *)
(***************************************************************************)
\* a switch on sub.frequency that counts four weeks to the month
SubscriptionMonthlyFourWeeks(sub) ==
    CASE sub.frequency = "weekly" -> Rat(Abs(sub.amount) * 4, 1)
      [] sub.frequency = "biweekly" -> Rat(Abs(sub.amount) * 2, 1)
      [] sub.frequency = "monthly" -> Rat(Abs(sub.amount), 1)
      [] sub.frequency = "yearly" -> Rat(Abs(sub.amount), 12)
      [] OTHER -> Rat(Abs(sub.amount), 1)

\* const amount = Math.abs(sub.amount) and the switch on sub.frequency
SubscriptionMonthly(sub) ==
    CASE sub.frequency = "weekly" -> Rat(Abs(sub.amount) * 433, 100)
      [] sub.frequency = "biweekly" -> Rat(Abs(sub.amount) * 217, 100)
      [] sub.frequency = "monthly" -> Rat(Abs(sub.amount), 1)
      [] sub.frequency = "yearly" -> Rat(Abs(sub.amount), 12)
      [] OTHER -> Rat(Abs(sub.amount), 1)

\* subscriptions.reduce((total, sub) => ..., 0)
MonthlySubscriptionCost(subs) ==
    RatSumFrom(Rat(0, 1), [i \in 1..Len(subs) |-> SubscriptionMonthly(subs[i])])

(***************************************************************************)
(* SpecRecurring: the two monthly totals over bounded lists of recurring   *)
(* items                                                                   *)
(***************************************************************************)
MaxRecurring == 2

\* the four known tags and one that is not known
Frequencies == { "weekly", "biweekly", "monthly", "yearly", "quarterly" }

\* <<frequency, magnitude, is_active>>
RecurringItems == Frequencies \X { 100, 1200 } \X BOOLEAN

\* the same items once as subscriptions (charges, so negative amounts) of
\* the dashboard and once as income streams of the budgets page
InitRecurring ==
    /\ \E items \in SeqsUpTo(RecurringItems, MaxRecurring) :
         /\ subscriptions =
              [i \in 1..Len(items) |->
                  Subscription(1, -items[i][2], items[i][1], items[i][3])]
         /\ incomeStreams =
              [i \in 1..Len(items) |->
                  IncomeStream(items[i][2], items[i][1], items[i][3])]
    /\ today = <<2024, 5, 31>>
    /\ accounts = <<Account(1), Account(2)>>
    /\ transactions = <<>>
    /\ allTransactions = <<>>
    /\ totalBalance = 0
    /\ loading = FALSE
    /\ donutPeriod = "thisMonth"
    /\ dailyData = <<>>
    /\ donutData = <<>>
    /\ monthlySubscriptionCost = <<>>
    /\ currentMonthSpending = <<>>
    /\ currentMonthIncome = <<>>
    /\ upcomingCharges = <<>>
    /\ loads = <<>>
    /\ requests = <<>>
    /\ StoreQuiet /\ TreeIdle /\ DialogClosed /\ TransactionsIdle
    /\ currentMonth = today
    /\ budgets = <<>>
    /\ budgetsLoading = FALSE
    /\ budgetLoads = <<>>
    /\ utilization = <<>>
    /\ totalExpectedIncome = <<>>

\* a render of the dashboard: the memo recomputes monthlySubscriptionCost
RenderSubscriptionCost ==
    /\ monthlySubscriptionCost = <<>>
    /\ monthlySubscriptionCost' = MonthlySubscriptionCost(subscriptions)
    /\ UNCHANGED <<pageVars, dailyData, donutData, currentMonthSpending,
                   currentMonthIncome, upcomingCharges, loaderVars,
                   treeVars, dialogVars, transactionsVars,
                   budgetVars>>

\* a render of the budgets page: the memo recomputes totalExpectedIncome
RenderExpectedIncome ==
    /\ totalExpectedIncome = <<>>
    /\ totalExpectedIncome' = TotalExpectedIncome(incomeStreams)
    /\ UNCHANGED <<pageVars, memoVars, loaderVars,
                   treeVars, dialogVars, transactionsVars, currentMonth, budgets,
                   incomeStreams, budgetsLoading, budgetLoads, utilization>>

NextRecurring == RenderSubscriptionCost \/ RenderExpectedIncome

SpecRecurring == InitRecurring /\ [][NextRecurring]_vars

(***************************************************************************)
(* Statements about dailyData (checked under SpecDaily)                    *)
(***************************************************************************)
\* the calendar date a yyyy-MM-dd string names
Parse(dStr) == << dStr \div 10000, (dStr \div 100) % 100, dStr % 100 >>

IsDate(dt) ==
    /\ dt[2] \in 1..12
    /\ dt[3] \in 1..DaysInMonth(dt[1], dt[2])

LeapYearsThrough(y) == (y \div 4) - (y \div 100) + (y \div 400)

DaysBeforeMonth(y, m) ==
    <<0, 31, 59, 90, 120, 151, 181, 212, 243, 273, 304, 334>>[m]
    + (IF m > 2 /\ IsLeap(y) THEN 1 ELSE 0)

\* the number of days from 1 January 1970 to dt, in closed form
DayNum(dt) ==
    365 * (dt[1] - 1970) + LeapYearsThrough(dt[1] - 1) - LeapYearsThrough(1969)
    + DaysBeforeMonth(dt[1], dt[2]) + (dt[3] - 1)

Rendered == dailyData # <<>>

InRange(tx) == Format(StartDate) <= tx.date /\ tx.date <= Format(EndDate)

TxOn(dStr) == { k \in 1..Len(transactions) : transactions[k].date = dStr }

\* C1: dailyData holds exactly one record for each calendar day from startDate
\* to endDate, in ascending date order (so its length is the inclusive day
\* count), and a day without transactions is present with income 0 and expenses 0.
C1_OneRecordPerDay ==
    Rendered =>
      /\ Len(dailyData) = DayNum(EndDate) - DayNum(StartDate) + 1
      /\ \A i \in 1..Len(dailyData) :
           /\ IsDate(Parse(dailyData[i].date))
           /\ DayNum(Parse(dailyData[i].date)) = DayNum(StartDate) + (i - 1)
           /\ TxOn(dailyData[i].date) = {} =>
                dailyData[i].income = Zero /\ dailyData[i].expenses = Zero

\* the window 29 Feb 2024 .. 3 Jun 2024 rendered from a list with an in-range
\* transaction, the first day (the leap day) being empty
C1_Witness ==
    /\ Rendered
    /\ today = <<2024, 5, 31>>
    /\ dailyData[1].date = 20240229
    /\ TxOn(20240229) = {}
    /\ dailyData[1].income = Zero
    /\ \E k \in 1..Len(transactions) : InRange(transactions[k])
    /\ dailyData[Len(dailyData)].date = 20240603

\* the day records' income totals added up in day order (a total of 0 leaves a
\* double sum unchanged, so the empty days are skipped)
FSumIncome(days) ==
    LET busy == SelectSeq(days, LAMBDA r : r.income # Zero)
    IN  FSumFrom(Zero, [i \in 1..Len(busy) |-> busy[i].income])

FSumExpenses(days) ==
    LET busy == SelectSeq(days, LAMBDA r : r.expenses # Zero)
    IN  FSumFrom(Zero, [i \in 1..Len(busy) |-> busy[i].expenses])

\* the sum of amount over the in-range transactions with amount > 0
InRangeIncome ==
    SeqSum([k \in 1..Len(transactions) |->
              IF InRange(transactions[k]) /\ transactions[k].amount > 0
              THEN transactions[k].amount ELSE 0])

\* the sum of |amount| over the in-range transactions with amount < 0
InRangeExpenses ==
    SeqSum([k \in 1..Len(transactions) |->
              IF InRange(transactions[k]) /\ transactions[k].amount < 0
              THEN Abs(transactions[k].amount) ELSE 0])

\* C2: the income totals of all day records add up to the sum of the in-range
\* amounts > 0, and the expense totals to the sum of |amount| of the in-range
\* amounts < 0 (the day totals being in major units, the sums are compared as
\* the double of sum/100; the totals are added as doubles, in day order).
C2_TotalsEqualAmountSums ==
    Rendered =>
      /\ FSumIncome(dailyData) = Div100(InRangeIncome)
      /\ FSumExpenses(dailyData) = Div100(InRangeExpenses)


(***************************************************************************)
(* Statements about donutData over several accounts (checked under         *)
(* SpecDonut, where every transaction is dated today and so lies in every  *)
(* period)                                                                 *)
(***************************************************************************)
DonutRendered == donutData # <<>>

RECURSIVE SetSum(_, _)
SetSum(S, f) ==
    IF S = {} THEN 0
    ELSE LET x == CHOOSE y \in S : TRUE IN f[x] + SetSum(S \ {x}, f)

Source == TxSource(donutPeriod)

SourceAccounts == { Source[k].account_id : k \in 1..Len(Source) }

\* what one account spent under one label
SpentIn(acc, label) ==
    SeqSum([k \in 1..Len(Source) |->
              IF /\ Source[k].account_id = acc
                 /\ Source[k].amount < 0
                 /\ LabelOf(Source[k]) = label
              THEN Abs(Source[k].amount) ELSE 0])

\* a label's spending summed over every account
CrossAccountTotal(label) ==
    SetSum(SourceAccounts, [acc \in SourceAccounts |-> SpentIn(acc, label)])

ExpenseLabels ==
    { LabelOf(Source[k]) : k \in { i \in 1..Len(Source) : Source[i].amount < 0 } }

TopLabels == { donutData.topCategories[i].label : i \in 1..Len(donutData.topCategories) }

\* C3: per-label totals are summed across all accounts before ranking and
\* truncation: the top-5 are five labels with the largest cross-account totals,
\* in descending order, and each reported total is the label's spending summed
\* over every account (shown in major units: the double of total/100).
C3_SummedBeforeRanking ==
    DonutRendered =>
      LET top == donutData.topCategories IN
      /\ Len(top) = Min(5, Cardinality(ExpenseLabels))
      /\ \A i \in 1..Len(top) :
           /\ top[i].label \in ExpenseLabels
           /\ top[i].value = Div100(CrossAccountTotal(top[i].label))
           /\ \A j \in 1..Len(top) :
                i < j => /\ top[i].label # top[j].label
                         /\ CrossAccountTotal(top[i].label) >= CrossAccountTotal(top[j].label)
           /\ \A l \in ExpenseLabels \ TopLabels :
                CrossAccountTotal(l) <= CrossAccountTotal(top[i].label)

\* more than five labels, and a label in the top five whose spending lies in two
\* accounts and whose share in the first account alone is below a label that
\* was cut
C3_Witness ==
    /\ DonutRendered
    /\ Cardinality(ExpenseLabels) > 5
    /\ \E l \in TopLabels : \E m \in ExpenseLabels \ TopLabels :
         /\ SpentIn(1, l) > 0
         /\ SpentIn(2, l) > 0
         /\ SpentIn(1, l) < CrossAccountTotal(m)


(***************************************************************************)
(* Statements about the period (checked under SpecPeriod)                  *)
(***************************************************************************)
\* the period start the render in this state uses
Start == PeriodStart(donutPeriod, today)

\* C9: week starts 7 days before now, month one calendar month before now,
\* year one calendar year before now (the day of the month kept, or the last
\* day of a shorter month), thisMonth on the first of now's month, thisYear on
\* the first of now's year, all at the epoch; and start <= now for every selector.
C9_PeriodStart ==
    /\ IsDate(Start)
    /\ DayNum(Start) <= DayNum(today)
    /\ donutPeriod = "week" => DayNum(today) - DayNum(Start) = 7
    /\ donutPeriod = "month" =>
         /\ Start[1] * 12 + Start[2] = today[1] * 12 + today[2] - 1
         /\ Start[3] = Min(today[3], DaysInMonth(Start[1], Start[2]))
    /\ donutPeriod = "year" =>
         /\ Start[1] = today[1] - 1 /\ Start[2] = today[2]
         /\ Start[3] = Min(today[3], DaysInMonth(Start[1], Start[2]))
    /\ donutPeriod = "thisMonth" => Start = <<today[1], today[2], 1>>
    /\ donutPeriod = "thisYear" => Start = <<today[1], 1, 1>>
    /\ donutPeriod = "all" => DayNum(Start) = 0

\* a breakdown rendered for "month" on 31 March 2024, whose start is clamped
\* to 29 February
C9_Witness ==
    /\ DonutRendered
    /\ donutPeriod = "month"
    /\ today = <<2024, 3, 31>>
    /\ Start = <<2024, 2, 29>>

\* the spending under a label by the source transactions dated from the period
\* start to now, both included
WindowTotal(label) ==
    SeqSum([k \in 1..Len(Source) |->
              IF /\ Source[k].amount < 0
                 /\ LabelOf(Source[k]) = label
                 /\ Format(Start) <= Source[k].date
                 /\ Source[k].date <= Format(today)
              THEN Abs(Source[k].amount) ELSE 0])

\* C10: an expense transaction of the source set is counted in the breakdown
\* if and only if start <= date <= now: every label's reported total is the
\* spending dated within [start, now], and a label without such spending is
\* not reported.
C10_CountedIffInPeriod ==
    DonutRendered =>
      LET top == donutData.topCategories IN
      /\ \A i \in 1..Len(top) :
           /\ WindowTotal(top[i].label) > 0
           /\ top[i].value = Div100(WindowTotal(top[i].label))
      /\ \A l \in ExpenseLabels : WindowTotal(l) > 0 => l \in TopLabels

(***************************************************************************)
(* Statements about loadDashboardData (checked under Spec)                 *)
(***************************************************************************)
\* C4: when a fetch of a load fails the load has no partial result: a failed
\* load has set none of transactions, totalBalance and subscriptions
C4_FailedLoadSetsNothing ==
    \A l \in DOMAIN loads : loads[l].pc = "failed" => loads[l].updated = {}

(***************************************************************************)
(* Statements about loadAllTransactions (checked under SpecAllTx)          *)
(***************************************************************************)
\* C5: allTransactions is only ever set by the most recently issued call of
\* loadAllTransactions: a call that completes is the last one of requests
C5_LastRequestWins ==
    [][\A r \in DOMAIN requests :
          (requests[r].pc = "run" /\ requests'[r].pc = "done") => r = Len(requests)]_vars

(***************************************************************************)
(* Statements about buildCategoryTree (checked under SpecTree)             *)
(***************************************************************************)
TreeBuilt == tree # <<>>

\* how many times the id occurs in the list
Occurrences(list, id) == Cardinality({ i \in DOMAIN list : list[i] = id })

CategoryIdsOf(cats) == { cats[i].id : i \in DOMAIN cats }

Dangling(cat) == cat.parent_id # Null /\ cat.parent_id[1] \notin CategoryIdsOf(categories)

\* C6: a category whose parent exists is exactly once in that parent's
\* children, a category without parent is exactly once in the roots, and a
\* category whose parent does not exist is neither a root nor a child
C6_TreePlacement ==
    TreeBuilt =>
      \A i \in DOMAIN categories :
        LET cat == categories[i] IN
        /\ cat.parent_id = Null => Occurrences(tree.roots, cat.id) = 1
        /\ (cat.parent_id # Null /\ ~Dangling(cat)) =>
              Occurrences(tree.children[cat.parent_id[1]], cat.id) = 1
        /\ Dangling(cat) =>
              /\ Occurrences(tree.roots, cat.id) = 0
              /\ \A p \in DOMAIN tree.children : Occurrences(tree.children[p], cat.id) = 0

\* a tree built from a root, a child of it and a category with an unknown parent
C6_Witness ==
    /\ TreeBuilt
    /\ \E i, j, k \in DOMAIN categories :
          /\ categories[i].parent_id = Null
          /\ categories[j].parent_id = Some(categories[i].id)
          /\ Dangling(categories[k])
          /\ tree.roots = << categories[i].id >>
          /\ tree.children[categories[i].id] = << categories[j].id >>

(***************************************************************************)
(* Statements about the budget utilization (checked under SpecBudget)      *)
(***************************************************************************)
\* C7: percent is min(100, spent / allocated * 100) when allocated > 0 and 0
\* otherwise, and isOverBudget is spent > allocated whatever the percent; so
\* allocated 0 with spent 500 gives 0 and true, and spent = allocated > 0
\* gives 100 and false.
C7_Utilization ==
    /\ Len(utilization) = Len(budgets)
    /\ \A i \in DOMAIN budgets :
         LET allocated == budgets[i].allocated_amount
             spent == budgets[i].spent_amount
             percent == utilization[i].percent
             overBudget == utilization[i].isOverBudget
         IN /\ (allocated > 0 /\ spent >= allocated) => percent = <<100, 1>>
            /\ (allocated > 0 /\ spent < allocated) =>
                  percent[1] * allocated = spent * 100 * percent[2]
            /\ allocated <= 0 => percent = <<0, 1>>
            /\ overBudget = (spent > allocated)
            /\ (allocated = 0 /\ spent = 500) => (percent = <<0, 1>> /\ overBudget)
            /\ (allocated > 0 /\ spent = allocated) => (percent = <<100, 1>> /\ ~overBudget)

\* the page shows a budget of 0 with 500 spent and a budget that is exactly
\* used up
C7_Witness ==
    \E i, j \in DOMAIN budgets :
        /\ budgets[i].allocated_amount = 0 /\ budgets[i].spent_amount = 500
        /\ utilization[i] = [percent |-> <<0, 1>>, isOverBudget |-> TRUE]
        /\ budgets[j].allocated_amount = 100 /\ budgets[j].spent_amount = 100
        /\ utilization[j] = [percent |-> <<100, 1>>, isOverBudget |-> FALSE]

(***************************************************************************)
(* Statements about the monthly totals (checked under SpecRecurring)       *)
(***************************************************************************)
\* the monthly equivalent of magnitude a in three-hundredths: a * 4.33 is
\* 1299 a / 300, a * 2.17 is 651 a / 300, a / 12 is 25 a / 300
MonthlyUnits(tag, a) ==
    IF tag = "weekly" THEN 1299 * a
    ELSE IF tag = "biweekly" THEN 651 * a
    ELSE IF tag = "yearly" THEN 25 * a
    ELSE 300 * a

\* total is units three-hundredths
IsUnits(total, units) == total[1] * 300 = total[2] * units

SubscriptionUnits ==
    SeqSum([i \in 1..Len(subscriptions) |->
              MonthlyUnits(subscriptions[i].frequency, Abs(subscriptions[i].amount))])

IncomeUnits ==
    SeqSum([i \in 1..Len(incomeStreams) |->
              IF incomeStreams[i].is_active
              THEN MonthlyUnits(incomeStreams[i].frequency, incomeStreams[i].expected_amount)
              ELSE 0])

\* the claim's examples: the total of the single item of magnitude a
ExampleTotal(tag, a) ==
    IF tag = "weekly" /\ a = 100 THEN <<433, 1>>
    ELSE IF tag = "yearly" /\ a = 1200 THEN <<100, 1>>
    ELSE IF tag = "monthly" /\ a = 100 THEN <<100, 1>>
    ELSE IF tag = "quarterly" /\ a = 100 THEN <<100, 1>>
    ELSE <<>>

\* C8: the monthly equivalent is a * 4.33 for weekly, a * 2.17 for biweekly,
\* a / 12 for yearly and a for monthly and for any other tag, in the
\* subscription total and in the income total alike; a single weekly 100
\* gives 433, yearly 1200 gives 100, monthly 100 and unknown 100 give 100.
C8_MonthlyEquivalent ==
    /\ monthlySubscriptionCost # <<>> =>
         /\ IsUnits(monthlySubscriptionCost, SubscriptionUnits)
         /\ Len(subscriptions) = 1 =>
              LET ex == ExampleTotal(subscriptions[1].frequency, Abs(subscriptions[1].amount))
              IN  ex # <<>> => monthlySubscriptionCost = ex
    /\ totalExpectedIncome # <<>> =>
         /\ IsUnits(totalExpectedIncome, IncomeUnits)
         /\ (Len(incomeStreams) = 1 /\ incomeStreams[1].is_active) =>
              LET ex == ExampleTotal(incomeStreams[1].frequency,
                                     incomeStreams[1].expected_amount)
              IN  ex # <<>> => totalExpectedIncome = ex

\* both totals computed for a weekly 100 and a yearly 1200: 433 + 100
C8_Witness ==
    /\ Len(subscriptions) = 2
    /\ subscriptions[1].frequency = "weekly" /\ subscriptions[1].amount = -100
    /\ subscriptions[2].frequency = "yearly" /\ subscriptions[2].amount = -1200
    /\ incomeStreams[1].is_active /\ incomeStreams[2].is_active
    /\ monthlySubscriptionCost = <<533, 1>>
    /\ totalExpectedIncome = <<533, 1>>

(***************************************************************************)
(* Statements about the fetched set behind the breakdown (checked under    *)
(* SpecPeriod, where allTransactions is the complete stored history and    *)
(* transactions is the bounded window of it that loadDashboardData fetches)*)
(***************************************************************************)
\* C11: for every selector the set the breakdown is computed from holds every
\* stored expense transaction dated within the period [start, now]
C11_FetchCoversPeriod ==
    DonutRendered =>
      \A k \in 1..Len(allTransactions) :
        (/\ allTransactions[k].amount < 0
         /\ Format(Start) <= allTransactions[k].date
         /\ allTransactions[k].date <= Format(today))
        => \E j \in 1..Len(Source) : Source[j] = allTransactions[k]

(***************************************************************************)
(* SpecTop: dailyData over one day with more contributors than the lists   *)
(* keep                                                                    *)
(***************************************************************************)
MaxTopTx == 6

\* the payee of the k-th transaction: each transaction has its own payee, so an
\* entry of a contributor list names the transaction it was made from
TopPayees == << "a", "b", "c", "d", "e", "f", "g", "h" >>

\* a day of mostly expenses of two magnitudes, and a day of mostly income of
\* two magnitudes with amounts of zero (which the code counts as expenses)
TopAmounts == { { -20, -10, 10 }, { 0, 10, 20 } }

\* lists of n transactions of today, the k-th with payee TopPayees[k]
TopTxLists(t, n) ==
    { [k \in 1..n |-> Tx(1, Format(t), am[k], TopPayees[k], Some("Food"), Some(0))] :
        am \in UNION { [1..n -> A] : A \in TopAmounts } }

InitTop ==
    /\ today = <<2024, 5, 31>>
    /\ \E n \in 0..MaxTopTx : transactions \in TopTxLists(today, n)
    /\ allTransactions = <<>>
    /\ donutPeriod = "thisMonth"
    /\ dailyData = <<>>
    /\ donutData = <<>>
    /\ DashboardLoaded /\ StoreQuiet /\ TreeIdle /\ BudgetsIdle /\ DialogClosed /\ TransactionsIdle

NextTop == RenderDaily

SpecTop == InitTop /\ [][NextTop]_vars

(***************************************************************************)
(* Statements about the contributor lists of dailyData (SpecTop)           *)
(***************************************************************************)
\* the transaction an entry of a contributor list was made from
TxOfEntry(e) == CHOOSE k \in 1..Len(transactions) : transactions[k].payee = e.payee

\* transaction j ranks before transaction k: larger magnitude, or the same
\* magnitude and earlier in the list
RanksBefore(j, k) ==
    \/ Abs(transactions[j].amount) > Abs(transactions[k].amount)
    \/ Abs(transactions[j].amount) = Abs(transactions[k].amount) /\ j < k

\* list is the first five of the contributions src (positions in transactions)
\* in ranking order
IsTopFive(list, src) ==
    /\ Len(list) = Min(5, Cardinality(src))
    /\ \A i \in 1..Len(list) :
         /\ \E k \in src : transactions[k].payee = list[i].payee
         /\ list[i].amount = Div100(Abs(transactions[TxOfEntry(list[i])].amount))
    /\ \A i, j \in 1..Len(list) :
         i < j => RanksBefore(TxOfEntry(list[i]), TxOfEntry(list[j]))
    /\ \A k \in src :
         (\A i \in 1..Len(list) : TxOfEntry(list[i]) # k)
         => \A i \in 1..Len(list) : RanksBefore(TxOfEntry(list[i]), k)

\* the records of today
TodayRecords == { i \in 1..Len(dailyData) : dailyData[i].date = Format(today) }

\* C12: each contributor list of a day holds at most five entries, the five of
\* largest magnitude in descending order, equal magnitudes in insertion order
\* both in the ranking and at the cut
C12_TopFiveStable ==
    Rendered =>
      \A i \in 1..Len(dailyData) :
        /\ Len(dailyData[i].topExpenses) <= 5
        /\ Len(dailyData[i].topIncome) <= 5
        /\ IsTopFive(dailyData[i].topExpenses,
                     { k \in TxOn(dailyData[i].date) : transactions[k].amount <= 0 })
        /\ IsTopFive(dailyData[i].topIncome,
                     { k \in TxOn(dailyData[i].date) : transactions[k].amount > 0 })

\* six expenses of one day, the last one tying with kept ones and cut off
C12_Witness ==
    /\ Rendered
    /\ Len(transactions) = 6
    /\ \A k \in 1..6 : transactions[k].amount < 0
    /\ transactions[1].amount = -10 /\ transactions[2].amount = -20
    /\ transactions[6].amount = -10
    /\ \E i \in TodayRecords :
         /\ Len(dailyData[i].topExpenses) = 5
         /\ dailyData[i].topExpenses[1].payee = "b"
         /\ \A j \in 1..5 : dailyData[i].topExpenses[j].payee # "f"

(***************************************************************************)
(* Statements about the grand total of the breakdown (SpecDonut)           *)
(***************************************************************************)
\* the spending of every expense transaction of the source, in minor units
AllSpent ==
    SeqSum([k \in 1..Len(Source) |->
              IF Source[k].amount < 0 THEN Abs(Source[k].amount) ELSE 0])

\* C13: the grand total of the breakdown is the sum of |amount| over all
\* in-period expense transactions of all categories (shown in major units: the
\* double of total/100), not only over the five categories that are shown
C13_TotalOverAllCategories ==
    DonutRendered => donutData.totalSpent = Div100(AllSpent)

(***************************************************************************)
(* SpecLabel: donutData over transactions without a category and with      *)
(* categories of any name a user can give                                  *)
(***************************************************************************)
MaxLabelTx == 2

\* no category, a category the user named like the label of the transactions
\* without one (CategoryDialog passes any name to createCategory), another one
LabelCategories == { Null, Some("Uncategorized"), Some("Food") }

LabelTxs(t) ==
    { Tx(1, Format(t), a, "shop", c, Some(0)) :
        a \in { -20, -10, 30 }, c \in LabelCategories }

InitLabel ==
    /\ today = <<2024, 5, 31>>
    /\ transactions \in SeqsUpTo(LabelTxs(today), MaxLabelTx)
    /\ allTransactions = transactions
    /\ donutPeriod \in { "thisMonth", "all" }
    /\ dailyData = <<>>
    /\ donutData = <<>>
    /\ DashboardLoaded /\ StoreQuiet /\ TreeIdle /\ BudgetsIdle /\ DialogClosed /\ TransactionsIdle

NextLabel == RenderDonut

SpecLabel == InitLabel /\ [][NextLabel]_vars

(***************************************************************************)
(* Statements about the label of transactions without a category           *)
(* (SpecLabel, where every transaction is dated today)                     *)
(***************************************************************************)
\* the spending of the expense transactions that have no category
SpentWithoutCategory ==
    SeqSum([k \in 1..Len(Source) |->
              IF Source[k].amount < 0 /\ Source[k].category_name = Null
              THEN Abs(Source[k].amount) ELSE 0])

\* C14: the total under "Uncategorized" is the spending of the transactions
\* that have no category: it never includes the amount of a transaction that
\* has one, whatever the categories are named
C14_UncategorizedIsDistinct ==
    DonutRendered =>
      \A i \in 1..Len(donutData.topCategories) :
        donutData.topCategories[i].label = "Uncategorized"
        => donutData.topCategories[i].value = Div100(SpentWithoutCategory)

(***************************************************************************)
(* Statements about the fold of loadDashboardData (Spec)                   *)
(***************************************************************************)
\* C15: the fold is a barrier: whenever transactions or totalBalance change,
\* the step is the one in which the last of the three fetches of every account
\* of one call is answered, and the values set are the fold over all of that
\* call's accounts; a call with a fetch still pending has set nothing
C15_FoldIsBarrier ==
    [][ /\ (transactions' # transactions \/ totalBalance' # totalBalance)
          => \E l \in DOMAIN loads :
               /\ loads[l].pc = "fanout"
               /\ loads[l].pending # {}
               /\ loads'[l].pending = {}
               /\ loads'[l].pc \in { "subscriptions", "done" }
               /\ Len(loads'[l].txs) = Len(loads[l].accs)
               /\ transactions' = FoldTxs(loads'[l].txs, 1)
               /\ totalBalance' = FoldBal(loads'[l].latestTxs, 1)
        /\ \A l \in DOMAIN loads' :
             loads'[l].pending # {} => loads'[l].updated = {}
      ]_vars

\* a call over two accounts has set the fold of both accounts' results
C15_Witness ==
    \E l \in DOMAIN loads :
      /\ loads[l].pc = "subscriptions"
      /\ Len(loads[l].accs) = 2
      /\ "transactions" \in loads[l].updated
      /\ transactions = loads[l].txs[1] \o loads[l].txs[2]
      /\ loads[l].txs[1] # <<>> /\ loads[l].txs[2] # <<>>
      /\ totalBalance = 500

(***************************************************************************)
(* SpecFold: one call of loadDashboardData over stores whose accounts have *)
(* no transactions, transactions without a balance snapshot, or snapshots  *)
(* in both accounts; every order of the fetches' answers, no rejection     *)
(***************************************************************************)
\* both accounts have transactions with a balance snapshot
StoreC ==
    StoreOf(StoreA.accounts,
            [StoreA.txs EXCEPT ![2] =
                << Tx(2, 20240530, 25, "refund", Some("Gym"), Some(70)),
                   Tx(2, 20240402, -15, "store", Null, Some(45)) >>],
            StoreB.subs)

FoldStores == Stores \cup { StoreC }

InitFold ==
    /\ today = <<2024, 5, 31>>
    /\ accounts = <<>>
    /\ transactions = <<>>
    /\ allTransactions = <<>>
    /\ subscriptions = <<>>
    /\ totalBalance = 0
    /\ loading = TRUE
    /\ donutPeriod = "thisMonth"
    /\ dailyData = <<>>
    /\ donutData = <<>>
    /\ monthlySubscriptionCost = <<>>
    /\ currentMonthSpending = <<>>
    /\ currentMonthIncome = <<>>
    /\ upcomingCharges = <<>>
    /\ store \in FoldStores
    /\ storeChanges = 0
    /\ loads = << NewLoad(Format(StartDate), Format(EndDate)) >>
    /\ requests = <<>>
    /\ TreeIdle /\ BudgetsIdle /\ DialogClosed /\ TransactionsIdle

NextFold ==
    \/ \E l \in DOMAIN loads : AccountsResolve(l)
    \/ \E l \in DOMAIN loads : \E f \in loads[l].pending : FetchResolve(l, f)
    \/ \E l \in DOMAIN loads : SubscriptionsResolve(l)

SpecFold == InitFold /\ [][NextFold]_vars

(***************************************************************************)
(* Statements about the total balance (SpecFold)                           *)
(***************************************************************************)
\* the transaction of a non-empty list with the latest date
MostRecent(txs) ==
    CHOOSE k \in 1..Len(txs) : \A j \in 1..Len(txs) : txs[j].date <= txs[k].date

\* what an account contributes: the balance snapshot of its most recent
\* transaction, 0 when it has no transaction or that transaction no snapshot
AccountBalance(st, id) ==
    IF st.txs[id] = <<>> THEN 0
    ELSE LET snap == st.txs[id][MostRecent(st.txs[id])].balance_snapshot
         IN  IF snap = Null THEN 0 ELSE snap[1]

StoreBalance(st) ==
    SeqSum([i \in 1..Len(st.accounts) |-> AccountBalance(st, st.accounts[i].id)])

\* C16: once a call has set it, the total balance is the sum over all accounts
\* of the balance snapshot of the account's most recent transaction, 0 for an
\* account without transactions
C16_TotalBalance ==
    \A l \in DOMAIN loads :
      "totalBalance" \in loads[l].updated => totalBalance = StoreBalance(store)

\* both accounts contribute a snapshot
C16_Witness ==
    /\ \E l \in DOMAIN loads : "totalBalance" \in loads[l].updated
    /\ AccountBalance(store, 1) = 500
    /\ AccountBalance(store, 2) = 70
    /\ totalBalance = 570

(***************************************************************************)
(* Statements about loads that find nothing (Spec)                         *)
(***************************************************************************)
\* the step in which getAccounts() answers a call with no accounts and the call
\* returns
FindsNoAccounts(l) == loads[l].pc = "accounts" /\ loads'[l].pc = "done"

\* C17: a load in which the store returned no accounts leaves the view empty,
\* whatever earlier loads had set: no accounts, no transactions, total balance
\* 0 (the daily and category totals are computed from transactions)
C17_EmptyLoadLeavesViewEmpty ==
    [][ \A l \in DOMAIN loads :
          FindsNoAccounts(l) => /\ accounts' = <<>>
                                /\ transactions' = <<>>
                                /\ totalBalance' = 0 ]_vars

(***************************************************************************)
(* Statements about is_active in the monthly totals (SpecRecurring)        *)
(***************************************************************************)
ActiveStreams == { i \in DOMAIN incomeStreams : incomeStreams[i].is_active }

\* the monthly equivalents of the income streams numbered in idx, in
\* three-hundredths
StreamUnits(idx) ==
    SetSum(idx, [i \in idx |-> MonthlyUnits(incomeStreams[i].frequency,
                                            incomeStreams[i].expected_amount)])

\* the monthly equivalents of the subscriptions numbered in idx
ChargeUnits(idx) ==
    SetSum(idx, [i \in idx |-> MonthlyUnits(subscriptions[i].frequency,
                                            Abs(subscriptions[i].amount))])

\* C18: the expected monthly income counts exactly the streams with
\* is_active = true; the monthly subscription cost counts every subscription,
\* active or not
C18_ActiveFilter ==
    /\ totalExpectedIncome # <<>> =>
         /\ IsUnits(totalExpectedIncome, StreamUnits(ActiveStreams))
         /\ ActiveStreams = {} => totalExpectedIncome = <<0, 1>>
    /\ monthlySubscriptionCost # <<>> =>
         /\ IsUnits(monthlySubscriptionCost, ChargeUnits(DOMAIN subscriptions))
         /\ subscriptions # <<>> => monthlySubscriptionCost # <<0, 1>>

\* an inactive weekly 100 beside an active monthly 100: the cost counts both,
\* the income only the active one
C18_Witness ==
    /\ Len(subscriptions) = 2
    /\ subscriptions[1].frequency = "weekly" /\ subscriptions[1].amount = -100
    /\ ~subscriptions[1].is_active /\ ~incomeStreams[1].is_active
    /\ subscriptions[2].frequency = "monthly" /\ subscriptions[2].amount = -100
    /\ subscriptions[2].is_active /\ incomeStreams[2].is_active
    /\ monthlySubscriptionCost = <<533, 1>>
    /\ totalExpectedIncome = <<100, 1>>

(***************************************************************************)
(* Statements about the order of the fetches' answers (Spec, while the     *)
(* store is unchanged since the page was mounted)                          *)
(***************************************************************************)
\* the transactions of the store's accounts, in the order of the account list
StoredInAccountOrder(st) ==
    LET upTo[i \in 0..Len(st.accounts)] ==
          IF i = 0 THEN <<>> ELSE upTo[i - 1] \o st.txs[st.accounts[i].id]
    IN  upTo[Len(st.accounts)]

\* what a call with the window [startStr, endStr] merges from the store
MergedOf(st, startStr, endStr) ==
    SelectSeq(StoredInAccountOrder(st),
              LAMBDA tx : startStr <= tx.date /\ tx.date <= endStr)

\* the calls that have set transactions and totalBalance
Committed == { l \in DOMAIN loads : "transactions" \in loads[l].updated }

\* C19: over unchanged store data every load merges the same output, whatever
\* the order in which its fetches are answered: the transactions are those of
\* the accounts in list order within the load's window, the balance is the sum
\* of the accounts' latest snapshots, and the view holds the output of a load
C19_OrderIndependent ==
    storeChanges = 0 =>
      /\ \A l \in Committed :
           /\ FoldTxs(loads[l].txs, 1) =
                MergedOf(store, loads[l].startDateStr, loads[l].endDateStr)
           /\ FoldBal(loads[l].latestTxs, 1) = StoreBalance(store)
      /\ Committed # {} =>
           /\ \E l \in Committed :
                transactions = MergedOf(store, loads[l].startDateStr, loads[l].endDateStr)
           /\ totalBalance = StoreBalance(store)

\* two loads over the same store have both merged transactions of both
\* accounts
C19_Witness ==
    /\ storeChanges = 0
    /\ Len(loads) = 2
    /\ Committed = { 1, 2 }
    /\ \E j, k \in 1..Len(transactions) :
         j < k /\ transactions[j].account_id = 1 /\ transactions[k].account_id = 2
    /\ transactions = MergedOf(store, loads[2].startDateStr, loads[2].endDateStr)

(***************************************************************************)
(* currentMonthSpending and currentMonthIncome of the dashboard: integer   *)
(* sums of amounts in minor units                                          *)
(***************************************************************************)
\* currentMonthSpending without the test of the month
CurrentMonthSpendingAnyMonth(txs, now) ==
    SeqSum([i \in 1..Len(txs) |-> IF txs[i].amount < 0 THEN Abs(txs[i].amount) ELSE 0])

\* transactions.filter(tx => tx.date.startsWith(thisMonth) && tx.amount < 0)
\*             .reduce((acc, tx) => acc + Math.abs(tx.amount), 0)
CurrentMonthSpending(txs, now) ==
    LET counted == SelectSeq(txs, LAMBDA tx :
                       tx.date \div 100 = FormatMonth(now) /\ tx.amount < 0)
    IN  SeqSum([i \in 1..Len(counted) |-> Abs(counted[i].amount)])

\* transactions.filter(tx => tx.date.startsWith(thisMonth) && tx.amount > 0)
\*             .reduce((acc, tx) => acc + tx.amount, 0)
CurrentMonthIncome(txs, now) ==
    LET counted == SelectSeq(txs, LAMBDA tx :
                       tx.date \div 100 = FormatMonth(now) /\ tx.amount > 0)
    IN  SeqSum([i \in 1..Len(counted) |-> counted[i].amount])

(***************************************************************************)
(* SpecMonth: the month's totals over the merged transactions of two       *)
(* accounts                                                                *)
(***************************************************************************)
MaxMonthTx == 2

\* an income and two expenses, dated today or on the last day of the month
\* before
MonthTxs(acc, t) ==
    { Tx(acc, dt, a, "shop", Null, Some(0)) :
        dt \in { Format(t), Format(PrevDay(StartOfMonth(t))) },
        a \in { 10000, -4000, -2000 } }

InitMonth ==
    /\ today \in TodaySet
    /\ \E own \in SeqsUpTo(MonthTxs(1, today), MaxMonthTx) :
         \E other \in SeqsUpTo(MonthTxs(2, today), MaxMonthTx) :
            \* the fold of loadDashboardData: allTxs.push(...txs), account by account
            transactions = FoldTxs(<<own, other>>, 1)
    /\ allTransactions = <<>>
    /\ donutPeriod = "thisMonth"
    /\ dailyData = <<>>
    /\ donutData = <<>>
    /\ DashboardLoaded /\ StoreQuiet /\ TreeIdle /\ BudgetsIdle /\ DialogClosed /\ TransactionsIdle

\* a render: the memos recompute the month's totals from the current state
RenderMonth ==
    /\ currentMonthSpending = <<>>
    /\ currentMonthSpending' = Some(CurrentMonthSpending(transactions, today))
    /\ currentMonthIncome' = Some(CurrentMonthIncome(transactions, today))
    /\ UNCHANGED <<pageVars, dailyData, donutData, monthlySubscriptionCost,
                   upcomingCharges, loaderVars,
                   treeVars, dialogVars, transactionsVars, budgetVars>>

NextMonth == RenderMonth

SpecMonth == InitMonth /\ [][NextMonth]_vars

(***************************************************************************)
(* Statements about the month's totals (SpecMonth)                         *)
(***************************************************************************)
\* transaction k is dated in the month of today
InMonth(k) ==
    /\ transactions[k].date >= Format(StartOfMonth(today))
    /\ transactions[k].date < Format(StartOfMonth(AddMonths(today, 1)))

\* the month's income of one account: its amounts above 0
AccountIncome(acc) ==
    LET own == { k \in 1..Len(transactions) :
                   transactions[k].account_id = acc /\ InMonth(k)
                   /\ transactions[k].amount > 0 }
    IN  SetSum(own, [k \in own |-> transactions[k].amount])

\* the month's expense of one account: |amount| of its amounts below 0
AccountExpense(acc) ==
    LET own == { k \in 1..Len(transactions) :
                   transactions[k].account_id = acc /\ InMonth(k)
                   /\ transactions[k].amount < 0 }
    IN  SetSum(own, [k \in own |-> Abs(transactions[k].amount)])

\* C20: the combined income and expense of the month are the sums of the
\* accounts' income and expense of that month; an account with 10000 and 4000
\* and one with 0 and 2000 give 10000 and 6000
C20_CombinedMonthTotals ==
    currentMonthSpending # <<>> =>
      /\ currentMonthIncome = Some(SetSum(AccountIds, [a \in AccountIds |-> AccountIncome(a)]))
      /\ currentMonthSpending = Some(SetSum(AccountIds, [a \in AccountIds |-> AccountExpense(a)]))
      /\ (/\ AccountIncome(1) = 10000 /\ AccountExpense(1) = 4000
          /\ AccountIncome(2) = 0 /\ AccountExpense(2) = 2000)
         => currentMonthIncome = Some(10000) /\ currentMonthSpending = Some(6000)

\* the example, beside a transaction of the month before
C20_Witness ==
    /\ AccountIncome(1) = 10000 /\ AccountExpense(1) = 4000
    /\ AccountIncome(2) = 0 /\ AccountExpense(2) = 2000
    /\ \E k \in 1..Len(transactions) : ~InMonth(k)
    /\ currentMonthIncome = Some(10000)
    /\ currentMonthSpending = Some(6000)

(***************************************************************************)
(* Statements about the unit of the day totals (SpecDaily)                 *)
(***************************************************************************)
\* the number x as a double: x = 100 x / 100, exactly
Whole(x) == [n |-> 100 * x, d |-> 0]

\* the amounts above 0 of the day, added in minor units
DayIncome(dStr) ==
    SetSum(TxOn(dStr), [k \in TxOn(dStr) |->
              IF transactions[k].amount > 0 THEN transactions[k].amount ELSE 0])

\* |amount| of the amounts below 0 of the day, added in minor units
DayExpenses(dStr) ==
    SetSum(TxOn(dStr), [k \in TxOn(dStr) |->
              IF transactions[k].amount < 0 THEN Abs(transactions[k].amount) ELSE 0])

\* C21: the day records that dailyData returns hold their income and expense
\* totals in integer minor units: no amount and no total has been divided by
\* 100 on the way
C21_TotalsInMinorUnits ==
    Rendered =>
      \A i \in 1..Len(dailyData) :
        /\ dailyData[i].income = Whole(DayIncome(dailyData[i].date))
        /\ dailyData[i].expenses = Whole(DayExpenses(dailyData[i].date))

(***************************************************************************)
(* Statements about the order of the category list (SpecTree)              *)
(***************************************************************************)
Orderings(n) ==
    { p \in [1..n -> 1..n] : \A i, j \in 1..n : p[i] = p[j] => i = j }

SetOf(list) == { list[i] : i \in DOMAIN list }

\* the two forests have the same roots and every node the same children
SameForest(t, u) ==
    /\ SetOf(t.roots) = SetOf(u.roots)
    /\ DOMAIN t.children = DOMAIN u.children
    /\ \A id \in DOMAIN t.children : SetOf(t.children[id]) = SetOf(u.children[id])

\* C22: for every permutation of the category list buildCategoryTree returns
\* the same set of roots and, for each node, the same set of children
C22_OrderIndependent ==
    TreeBuilt =>
      \A p \in Orderings(Len(categories)) :
        SameForest(BuildCategoryTree([i \in 1..Len(categories) |-> categories[p[i]]]),
                   tree)

\* a child listed before its parent, and a grandchild before both
C22_Witness ==
    /\ TreeBuilt
    /\ Len(categories) = 3
    /\ categories[1].parent_id = Some(categories[2].id)
    /\ categories[2].parent_id = Some(categories[3].id)
    /\ categories[3].parent_id = Null
    /\ tree.children[categories[2].id] = << categories[1].id >>
    /\ tree.children[categories[3].id] = << categories[2].id >>

(***************************************************************************)
(* SpecLive: loadDashboardData over days, every fetch of a call being      *)
(* answered or rejected in the end                                         *)
(***************************************************************************)
\* a step of call l: one of its awaited fetches is answered or rejected
LoadStep(l) ==
    /\ l \in DOMAIN loads
    /\ \/ AccountsResolve(l)
       \/ AccountsReject(l)
       \/ \E f \in loads[l].pending : FetchResolve(l, f)
       \/ \E f \in loads[l].pending : FetchReject(l, f)
       \/ SubscriptionsResolve(l)
       \/ SubscriptionsReject(l)

InitLive == Mounted(<<2024, 5, 31>>)

NextLive ==
    \/ \E l \in DOMAIN loads : AccountsResolve(l)
    \/ \E l \in DOMAIN loads : AccountsReject(l)
    \/ \E l \in DOMAIN loads : \E f \in loads[l].pending : FetchResolve(l, f)
    \/ \E l \in DOMAIN loads : \E f \in loads[l].pending : FetchReject(l, f)
    \/ \E l \in DOMAIN loads : SubscriptionsResolve(l)
    \/ \E l \in DOMAIN loads : SubscriptionsReject(l)
    \/ DayRollover

\* the store answers or rejects every fetch: a call that awaits a fetch takes
\* its next step in the end
SpecLive ==
    InitLive /\ [][NextLive]_vars /\ \A l \in 1..MaxLoads : WF_vars(LoadStep(l))

(***************************************************************************)
(* Statements about the end of a load (SpecLive)                           *)
(***************************************************************************)
\* call l has been issued and has returned, and the page is not loading
Finished(l) ==
    l \in DOMAIN loads /\ loads[l].pc \in { "done", "failed" } /\ loading = FALSE

\* C23: every dashboard load finishes in the end, with loading = false,
\* whether it succeeded or a fetch failed, and the page does not stay loading
C23_LoadsFinish ==
    /\ \A l \in 1..MaxLoads : (l \in DOMAIN loads) ~> Finished(l)
    /\ <>[](loading = FALSE)

\* a load that failed and a load that succeeded have both finished
C23_Witness ==
    /\ Len(loads) = 2
    /\ loads[1].pc = "failed"
    /\ loads[2].pc = "done" /\ loads[2].accs # <<>>
    /\ loading = FALSE

(***************************************************************************)
(* Statements about the view after a failed load (Spec)                    *)
(***************************************************************************)
\* the state of the page that its render reads
View ==
    [accounts |-> accounts, transactions |-> transactions,
     subscriptions |-> subscriptions, totalBalance |-> totalBalance,
     loading |-> loading]

\* the view after a successful load over the accounts accs when none of them
\* has a transaction or a subscription: the fold sets [] and 0
ViewOfEmptyAccounts(accs) ==
    [accounts |-> accs, transactions |-> <<>>, subscriptions |-> <<>>,
     totalBalance |-> 0, loading |-> FALSE]

\* C24: after a load in which a fetch failed the view differs from the view
\* after a successful load over accounts that have no transactions
C24_FailureIsVisible ==
    \A l \in DOMAIN loads :
      loads[l].pc = "failed" => View # ViewOfEmptyAccounts(accounts)

(***************************************************************************)
(* upcomingCharges of the dashboard.  Array.prototype.filter returns a new *)
(* array; Array.prototype.sort sorts the array it is called on in place    *)
(* and returns it.  The operator returns the upcoming charges together     *)
(* with the subscriptions array as the call leaves it.                     *)
(***************************************************************************)
\* a Subscription with its next_charge_date, which may be null
SubscriptionDue(acc, amount, frequency, active, next) ==
    [account_id |-> acc, amount |-> amount, frequency |-> frequency,
     is_active |-> active, next_charge_date |-> next]

\* .sort((a, b) => (a.next_charge_date || "").localeCompare(b.next_charge_date || "")):
\* ascending, stable; null sorts as the empty string, before every date
SortByNextCharge(s) ==
    LET key(sub) == IF sub.next_charge_date = Null THEN 0 ELSE sub.next_charge_date[1]
    IN  Let([i \in 1..Len(s) |-> [j \in 1..Len(s) |-> key(s[j]) < key(s[i])]],
            LAMBDA before : StableSort(s, before))

\* upcomingCharges sorting the subscriptions array itself and filtering after
UpcomingChargesSortingInput(subs) ==
    Let(SortByNextCharge(subs), LAMBDA sorted :
        [subscriptions   |-> sorted,
         upcomingCharges |-> Take(SelectSeq(sorted, LAMBDA sub :
                                      sub.next_charge_date # Null), 4)])

\* subscriptions.filter(sub => sub.next_charge_date).sort(...).slice(0, 4)
UpcomingCharges(subs) ==
    Let(SelectSeq(subs, LAMBDA sub : sub.next_charge_date # Null), LAMBDA filtered :
        [subscriptions   |-> subs,
         upcomingCharges |-> Take(SortByNextCharge(filtered), 4)])

(***************************************************************************)
(* SpecSnapshot: every aggregation of the dashboard and the category tree  *)
(* run, in any order, over inputs that are not in the order the            *)
(* aggregations sort by                                                    *)
(***************************************************************************)
MaxSnapshotSubs == 2

\* no transactions, or three that are sorted neither by date nor by amount
SnapshotTxs(t) ==
    { <<>>,
      << Tx(1, Format(t), -20, "garage", Some("Car"), Some(0)),
         Tx(1, Format(PrevDay(t)), 30, "employer", Null, Some(0)),
         Tx(2, Format(t), -50, "landlord", Some("Rent"), Some(0)) >> }

\* subscriptions without a next charge, with a later and with an earlier one
SnapshotSubs ==
    { SubscriptionDue(1, -100, "monthly", TRUE, next) :
        next \in { Null, Some(20240605), Some(20240601) } }

\* no categories, or a child listed before its parent
SnapshotCategories == { <<>>, << Category(2, Some(1)), Category(1, Null) >> }

InitSnapshot ==
    /\ today = <<2024, 5, 31>>
    /\ transactions \in SnapshotTxs(today)
    /\ allTransactions = transactions
    /\ donutPeriod = "thisMonth"
    /\ accounts = <<Account(1), Account(2)>>
    /\ subscriptions \in SeqsUpTo(SnapshotSubs, MaxSnapshotSubs)
    /\ totalBalance = 0
    /\ loading = FALSE
    /\ dailyData = <<>>
    /\ donutData = <<>>
    /\ monthlySubscriptionCost = <<>>
    /\ currentMonthSpending = <<>>
    /\ currentMonthIncome = <<>>
    /\ upcomingCharges = <<>>
    /\ loads = <<>>
    /\ requests = <<>>
    /\ categories \in SnapshotCategories
    /\ tree = <<>>
    /\ StoreQuiet /\ BudgetsIdle /\ DialogClosed /\ TransactionsIdle

\* a render: the memo recomputes upcomingCharges; the subscriptions array is
\* what the call leaves of it
RenderUpcomingCharges ==
    /\ upcomingCharges = <<>>
    /\ LET out == UpcomingCharges(subscriptions)
       IN  /\ upcomingCharges' = Some(out.upcomingCharges)
           /\ subscriptions' = out.subscriptions
    /\ UNCHANGED <<today, accounts, transactions, allTransactions, totalBalance,
                   loading, donutPeriod, dailyData, donutData, monthlySubscriptionCost,
                   currentMonthSpending, currentMonthIncome, loaderVars,
                   treeVars, dialogVars, transactionsVars,
                   budgetVars>>

NextSnapshot ==
    \/ RenderDaily
    \/ RenderDonut
    \/ RenderSubscriptionCost
    \/ RenderUpcomingCharges
    \/ BuildTree

SpecSnapshot == InitSnapshot /\ [][NextSnapshot]_vars

(***************************************************************************)
(* Statements about the inputs of the aggregations (SpecSnapshot)          *)
(***************************************************************************)
\* C25: no aggregation changes its inputs: after every step the transaction,
\* subscription and category lists hold the same elements in the same order
\* with the same fields
C25_InputsUnchanged ==
    [][ /\ transactions' = transactions
        /\ allTransactions' = allTransactions
        /\ subscriptions' = subscriptions
        /\ categories' = categories ]_vars

\* every aggregation has run over inputs it would have to reorder: the
\* subscriptions are listed latest charge first, the upcoming charges
\* earliest first
C25_Witness ==
    /\ dailyData # <<>> /\ donutData # <<>> /\ monthlySubscriptionCost # <<>>
    /\ tree # <<>> /\ upcomingCharges # <<>>
    /\ transactions # <<>> /\ categories # <<>>
    /\ Len(subscriptions) = 2
    /\ subscriptions[1].next_charge_date = Some(20240605)
    /\ subscriptions[2].next_charge_date = Some(20240601)
    /\ upcomingCharges = Some(<< subscriptions[2], subscriptions[1] >>)

(***************************************************************************)
(* Statements about the month of the displayed budgets (SpecBudget)        *)
(***************************************************************************)
\* no call of loadData awaits a fetch, and the call for the selected month
\* (the latest one) was answered
BudgetsSettled ==
    /\ \A l \in DOMAIN budgetLoads : budgetLoads[l].pc # "fetch"
    /\ budgetLoads[Len(budgetLoads)].pc = "done"
    /\ budgetLoads[Len(budgetLoads)].monthStr = FormatMonth(currentMonth)

\* C26: once no fetch is in flight the displayed budgets are the ones the
\* store returns for the selected month, under every order of month changes
\* and answers
C26_BudgetsOfSelectedMonth ==
    BudgetsSettled => budgets = GetBudgetsWithSpending(store, FormatMonth(currentMonth))

(***************************************************************************)
(* Statements about the reachable part of the forest (SpecTree)            *)
(***************************************************************************)
\* the category with this id
CategoryOf(id) == categories[CHOOSE i \in DOMAIN categories : categories[i].id = id]

\* following parent_id from the category ends, within k links, at a category
\* whose parent_id is null
RECURSIVE EndsAtRoot(_, _)
EndsAtRoot(id, k) ==
    LET parent == CategoryOf(id).parent_id
    IN  IF parent = Null THEN TRUE
        ELSE IF k = 0 \/ parent[1] \notin CategoryIdsOf(categories) THEN FALSE
        ELSE EndsAtRoot(parent[1], k - 1)

\* the ids reached from the roots by at most k steps to a child
RECURSIVE ReachedWithin(_)
ReachedWithin(k) ==
    IF k = 0 THEN SetOf(tree.roots)
    ELSE LET before == ReachedWithin(k - 1)
         IN  before \cup UNION { SetOf(tree.children[p]) : p \in before }

\* the number of paths of at most k steps from a root to the id
RECURSIVE PathsWithin(_, _)
PathsWithin(id, k) ==
    Occurrences(tree.roots, id)
    + (IF k = 0 THEN 0
       ELSE SetSum(DOMAIN tree.children,
                   [p \in DOMAIN tree.children |->
                       Occurrences(tree.children[p], id) * PathsWithin(p, k - 1)]))

\* C27: a category is reachable from the returned roots exactly if its
\* parent links end at a category without parent, so the descendants of a
\* dangling category and the members of a parent cycle are absent; and no
\* category is reachable by more than one path
C27_ReachableForest ==
    TreeBuilt =>
      \A i \in DOMAIN categories :
        LET id == categories[i].id
            n  == Len(categories)
        IN  /\ id \in ReachedWithin(n) <=> EndsAtRoot(id, n)
            /\ PathsWithin(id, n) <= 1

\* a root with a child, beside a category that is its own parent
C27_Witness ==
    /\ TreeBuilt
    /\ \E i, j, k \in DOMAIN categories :
         /\ categories[i].parent_id = Null
         /\ categories[j].parent_id = Some(categories[i].id)
         /\ categories[k].parent_id = Some(categories[k].id)
         /\ ReachedWithin(3) = { categories[i].id, categories[j].id }
         /\ tree.children[categories[k].id] = << categories[k].id >>

\* a cycle of two categories with a descendant: none of them is reached
C27_WitnessAbsent ==
    /\ TreeBuilt
    /\ Len(categories) = 3
    /\ ReachedWithin(3) = {}
    /\ \E i, j, k \in DOMAIN categories :
         /\ i # j /\ k # i /\ k # j
         /\ categories[i].parent_id = Some(categories[j].id)
         /\ categories[j].parent_id = Some(categories[i].id)
         /\ categories[k].parent_id = Some(categories[i].id)

(***************************************************************************)
(* Statements about the sign of the contributions (SpecTop)                *)
(***************************************************************************)
\* the payees named in a contributor list
PayeesIn(list) == { list[i].payee : i \in 1..Len(list) }

\* C28: every entry of a day's income contributors comes from a transaction
\* with amount > 0 and every entry of its expense contributors from one with
\* amount < 0; a transaction with amount 0 is in neither list
C28_ContributorsBySign ==
    Rendered =>
      \A i \in 1..Len(dailyData) :
        /\ \A j \in 1..Len(dailyData[i].topIncome) :
             transactions[TxOfEntry(dailyData[i].topIncome[j])].amount > 0
        /\ \A j \in 1..Len(dailyData[i].topExpenses) :
             transactions[TxOfEntry(dailyData[i].topExpenses[j])].amount < 0
        /\ \A k \in 1..Len(transactions) :
             transactions[k].amount = 0
             => transactions[k].payee \notin PayeesIn(dailyData[i].topIncome)
                                             \cup PayeesIn(dailyData[i].topExpenses)

(***************************************************************************)
(* The import dialog (components/import/ImportDialog)                      *)
(***************************************************************************)
MaxAccountFetches == 2
MaxImports == 2

\* the names of the files the user can choose
FileNames == { "a.csv", "b.csv" }

\* what importCsvBytes can answer: rows imported, or all rows duplicates
ImportResults ==
    { [total_rows |-> 2, imported |-> 2, skipped_duplicates |-> 0],
      [total_rows |-> 2, imported |-> 0, skipped_duplicates |-> 2] }

\* the list without its i-th element
Without(list, i) == [k \in 1..(Len(list) - 1) |-> IF k < i THEN list[k] ELSE list[k + 1]]

\* setImportDialogOpen(true): the dialog opens and the effect on isOpen calls
\* getAccounts; its callback keeps the selectedAccountId of this render
OpenDialog ==
    /\ ~isOpen
    /\ Len(accountFetches) < MaxAccountFetches
    /\ isOpen' = TRUE
    /\ accountFetches' = Append(accountFetches, importAccountId)
    /\ UNCHANGED <<step, importAccounts, importAccountId, selectedFile, result, error,
                   imports>>
    /\ UNCHANGED <<pageVars, memoVars, loaderVars, treeVars, budgetVars,
                   transactionsVars>>

\* onOpenChange(false): the dialog closes and the reset effect runs
CloseDialog ==
    /\ isOpen
    /\ isOpen' = FALSE
    /\ step' = "select"
    /\ selectedFile' = Null
    /\ result' = Null
    /\ error' = Null
    /\ UNCHANGED <<importAccounts, importAccountId, accountFetches, imports>>
    /\ UNCHANGED <<pageVars, memoVars, loaderVars, treeVars, budgetVars,
                   transactionsVars>>

\* getAccounts() resolves: the accounts are stored, and the first one is
\* selected when there is one and the callback's selectedAccountId is null
DialogAccountsResolve(i) ==
    /\ i \in DOMAIN accountFetches
    /\ LET data == GetAccounts(store)
       IN  /\ importAccounts' = data
           /\ importAccountId' =
                IF Len(data) > 0 /\ accountFetches[i] = Null
                THEN Some(data[1].id) ELSE importAccountId
    /\ accountFetches' = Without(accountFetches, i)
    /\ UNCHANGED <<isOpen, step, selectedFile, result, error, imports>>
    /\ UNCHANGED <<pageVars, memoVars, loaderVars, treeVars, budgetVars,
                   transactionsVars>>

\* the user picks an account in the dialog's selector
DialogSelectAccount(id) ==
    /\ isOpen /\ step = "select"
    /\ \E k \in DOMAIN importAccounts : importAccounts[k].id = id
    /\ importAccountId' = Some(id)
    /\ UNCHANGED <<isOpen, step, importAccounts, selectedFile, result, error,
                   accountFetches, imports>>
    /\ UNCHANGED <<pageVars, memoVars, loaderVars, treeVars, budgetVars,
                   transactionsVars>>

\* handleSelectFile with a file chosen and read
HandleSelectFile(name) ==
    /\ isOpen /\ step = "select"
    /\ selectedFile' = Some(name)
    /\ error' = Null
    /\ UNCHANGED <<isOpen, step, importAccounts, importAccountId, result,
                   accountFetches, imports>>
    /\ UNCHANGED <<pageVars, memoVars, loaderVars, treeVars, budgetVars,
                   transactionsVars>>

\* handleImport up to its await: the button is there on step select and
\* enabled with a file, an account and a non-empty account list
HandleImport ==
    /\ isOpen /\ step = "select"
    /\ selectedFile # Null /\ importAccountId # Null /\ Len(importAccounts) > 0
    /\ Len(imports) < MaxImports
    /\ step' = "importing"
    /\ error' = Null
    /\ imports' = Append(imports, [pc |-> "importing", file |-> selectedFile[1],
                                   accountId |-> importAccountId[1]])
    /\ UNCHANGED <<isOpen, importAccounts, importAccountId, selectedFile, result,
                   accountFetches>>
    /\ UNCHANGED <<pageVars, memoVars, loaderVars, treeVars, budgetVars,
                   transactionsVars>>

\* importCsvBytes resolves: handleImport goes on after its await
ImportResolve(k, importResult) ==
    /\ k \in DOMAIN imports /\ imports[k].pc = "importing"
    /\ result' = Some(importResult)
    /\ step' = "result"
    /\ imports' = [imports EXCEPT ![k].pc = "imported"]
    /\ UNCHANGED <<isOpen, importAccounts, importAccountId, selectedFile, error,
                   accountFetches>>
    /\ UNCHANGED <<pageVars, memoVars, loaderVars, treeVars, budgetVars,
                   transactionsVars>>

\* importCsvBytes rejects: the catch block of handleImport
ImportReject(k) ==
    /\ k \in DOMAIN imports /\ imports[k].pc = "importing"
    /\ error' = Some("Import failed")
    /\ step' = "select"
    /\ imports' = [imports EXCEPT ![k].pc = "failed"]
    /\ UNCHANGED <<isOpen, importAccounts, importAccountId, selectedFile, result,
                   accountFetches>>
    /\ UNCHANGED <<pageVars, memoVars, loaderVars, treeVars, budgetVars,
                   transactionsVars>>

InitImport ==
    /\ DashboardQuiet /\ StoreQuiet /\ TreeIdle /\ BudgetsIdle
    /\ DialogClosed /\ TransactionsIdle

NextImport ==
    \/ OpenDialog
    \/ CloseDialog
    \/ \E i \in 1..MaxAccountFetches : DialogAccountsResolve(i)
    \/ \E id \in 1..2 : DialogSelectAccount(id)
    \/ \E name \in FileNames : HandleSelectFile(name)
    \/ HandleImport
    \/ \E k \in 1..MaxImports, r \in ImportResults : ImportResolve(k, r)
    \/ \E k \in 1..MaxImports : ImportReject(k)

SpecImport == InitImport /\ [][NextImport]_vars

(***************************************************************************)
(* Statements about the steps of the import dialog (SpecImport)            *)
(***************************************************************************)
\* a step that opens the dialog shows step select, no result and no error
OpensFresh ==
    (~isOpen /\ isOpen') => (step' = "select" /\ result' = Null /\ error' = Null)

\* the step moves from select to importing, from importing to result with
\* the result set or back to select with the error set, and to select when
\* the dialog closes
StepMoves ==
    step' # step =>
      \/ step = "select" /\ step' = "importing"
      \/ step = "importing" /\ step' = "result" /\ result' # Null
      \/ step = "importing" /\ step' = "select" /\ error' # Null
      \/ isOpen /\ ~isOpen' /\ step' = "select"

\* C29: the step of the import dialog moves only select -> importing ->
\* result on success and select -> importing -> select with the error set on
\* failure, and whenever the dialog is opened it shows step select with no
\* result and no error, whatever the order of close, reopen and the
\* completion of an import in flight
C29_StepMachine == [][OpensFresh /\ StepMoves]_vars

(***************************************************************************)
(* The transactions page (pages/TransactionsPage)                          *)
(***************************************************************************)
MaxFetches == 3

\* the effect on selectedAccountId with an account selected: loading is set
\* and loadTransactions awaits getTransactions(selectedAccountId)
LoadTransactions(id) == Append(fetches, [accountId |-> id, pc |-> "fetching"])

\* getAccounts() of loadAccounts resolves: the accounts are stored and, the
\* selectedAccountId of the mount being null, the first one is selected,
\* which runs the effect on selectedAccountId
PageAccountsResolve ==
    /\ accountLoads > 0
    /\ accountLoads' = accountLoads - 1
    /\ LET data == GetAccounts(store)
       IN  /\ pageAccounts' = data
           /\ IF Len(data) > 0 /\ selectedAccountId # Some(data[1].id)
              THEN /\ selectedAccountId' = Some(data[1].id)
                   /\ pageLoading' = TRUE
                   /\ fetches' = LoadTransactions(data[1].id)
              ELSE UNCHANGED <<selectedAccountId, pageLoading, fetches>>
    /\ UNCHANGED pageTransactions
    /\ UNCHANGED <<pageVars, memoVars, loaderVars, treeVars, budgetVars, dialogVars>>

\* getAccounts() of loadAccounts rejects: the error is logged
PageAccountsReject ==
    /\ accountLoads > 0
    /\ accountLoads' = accountLoads - 1
    /\ UNCHANGED <<pageAccounts, selectedAccountId, pageTransactions, pageLoading,
                   fetches>>
    /\ UNCHANGED <<pageVars, memoVars, loaderVars, treeVars, budgetVars, dialogVars>>

\* the user picks another account in the selector: setSelectedAccountId(id)
\* and the effect on selectedAccountId
OnSelect(id) ==
    /\ \E k \in DOMAIN pageAccounts : pageAccounts[k].id = id
    /\ selectedAccountId # Some(id)
    /\ Len(fetches) < MaxFetches
    /\ selectedAccountId' = Some(id)
    /\ pageLoading' = TRUE
    /\ fetches' = LoadTransactions(id)
    /\ UNCHANGED <<pageAccounts, pageTransactions, accountLoads>>
    /\ UNCHANGED <<pageVars, memoVars, loaderVars, treeVars, budgetVars, dialogVars>>

\* getTransactions resolves: loadTransactions goes on after its await
TransactionsResolve(k) ==
    /\ k \in DOMAIN fetches /\ fetches[k].pc = "fetching"
    /\ pageTransactions' = GetTransactions(store, fetches[k].accountId, Null)
    /\ pageLoading' = FALSE
    /\ fetches' = [fetches EXCEPT ![k].pc = "shown"]
    /\ UNCHANGED <<pageAccounts, selectedAccountId, accountLoads>>
    /\ UNCHANGED <<pageVars, memoVars, loaderVars, treeVars, budgetVars, dialogVars>>

\* getTransactions rejects: the catch and the finally of loadTransactions
TransactionsReject(k) ==
    /\ k \in DOMAIN fetches /\ fetches[k].pc = "fetching"
    /\ pageLoading' = FALSE
    /\ fetches' = [fetches EXCEPT ![k].pc = "failed"]
    /\ UNCHANGED <<pageAccounts, selectedAccountId, pageTransactions, accountLoads>>
    /\ UNCHANGED <<pageVars, memoVars, loaderVars, treeVars, budgetVars, dialogVars>>

\* the page after its mount: loadAccounts is in flight, and loadTransactions
\* has found no account selected, emptied the list and cleared loading
InitTransactions ==
    /\ DashboardQuiet /\ TreeIdle /\ BudgetsIdle /\ DialogClosed
    /\ store \in Stores
    /\ storeChanges = 0
    /\ pageAccounts = <<>>
    /\ selectedAccountId = Null
    /\ pageTransactions = <<>>
    /\ pageLoading = FALSE
    /\ accountLoads = 1
    /\ fetches = <<>>

NextTransactions ==
    \/ PageAccountsResolve
    \/ PageAccountsReject
    \/ \E id \in 1..2 : OnSelect(id)
    \/ \E k \in 1..MaxFetches : TransactionsResolve(k)
    \/ \E k \in 1..MaxFetches : TransactionsReject(k)

SpecTransactions == InitTransactions /\ [][NextTransactions]_vars

(***************************************************************************)
(* Statements about the transactions page (SpecTransactions)               *)
(***************************************************************************)
\* the calls of loadTransactions that still await their answer
Fetching == { k \in DOMAIN fetches : fetches[k].pc = "fetching" }

\* C30: once no fetch is in flight (and none has failed) the displayed
\* transactions are those of the selected account, and loading is false only
\* when no fetch for the selected account is in flight
C30_TransactionsOfSelectedAccount ==
    selectedAccountId # Null =>
      /\ (Fetching = {} /\ \A k \in DOMAIN fetches : fetches[k].pc = "shown")
         => pageTransactions = GetTransactions(store, selectedAccountId[1], Null)
      /\ pageLoading = FALSE
         => \A k \in Fetching : fetches[k].accountId # selectedAccountId[1]

=========================================================================
